---- MODULE Spec2Model ----
(***************************************************************************)
(* ClubPulse: the warning-email queue of src/app/actions.ts                *)
(* (src/unnamed/part_002), the Resend wrapper (src/unnamed/part_001), the  *)
(* cron routes and the open webhook (src/unnamed/part_005).                *)
(*                                                                         *)
(* Strings that the code parses or normalises (roles, activity counts,     *)
(* emails, names) are sequences of one-character strings, so that trim(),  *)
(* toLowerCase() and parseInt() are computed character by character.       *)
(* Enum values, template identifiers and log messages are opaque strings.  *)
(***************************************************************************)
EXTENDS Integers, Sequences, FiniteSets, TLC

\* ------------------------------------------------------------------ bounds
\* Most rows the EmailQueue table (and so the WarningLog table) may hold.
MaxQueue == 2
\* Most rows the AdminLog table may hold.
MaxAdminLog == 2
\* Most times the email provider may be called.
MaxSends == 2
\* Most operations that may be between two of their awaits at a time.
MaxInFlight == 2

\* ------------------------------------------------------- program constants
DEFAULT_ACTIVITY_THRESHOLD == 5

COLUMN_INDICES == [NAME |-> 0, EMAIL |-> 1, ACTIVITY_COUNT |-> 2, ROLE |-> 3]

\* enum EmailStatus
EmailStatus == {"QUEUED", "APPROVED", "SENT", "CANCELED", "FAILED"}

\* ----------------------------------------------------------------- strings
UpperChars == <<"A","B","C","D","E","F","G","H","I","J","K","L","M",
                "N","O","P","Q","R","S","T","U","V","W","X","Y","Z">>
LowerChars == <<"a","b","c","d","e","f","g","h","i","j","k","l","m",
                "n","o","p","q","r","s","t","u","v","w","x","y","z">>
DigitChars == <<"0","1","2","3","4","5","6","7","8","9">>
WhiteSpace == {" ", "\t", "\n"}

IsUpper(c) == \E i \in DOMAIN UpperChars : UpperChars[i] = c
IsDigit(c) == \E i \in DOMAIN DigitChars : DigitChars[i] = c
DigitVal(c) == (CHOOSE i \in DOMAIN DigitChars : DigitChars[i] = c) - 1

\* String.prototype.toLowerCase
ToLowerCase(s) ==
  [i \in DOMAIN s |->
     IF IsUpper(s[i])
       THEN LowerChars[CHOOSE k \in DOMAIN UpperChars : UpperChars[k] = s[i]]
       ELSE s[i]]

\* String.prototype.trim
RECURSIVE TrimStart(_)
TrimStart(s) ==
  IF s # <<>> /\ Head(s) \in WhiteSpace THEN TrimStart(Tail(s)) ELSE s

RECURSIVE TrimEnd(_)
TrimEnd(s) ==
  IF s # <<>> /\ s[Len(s)] \in WhiteSpace
    THEN TrimEnd(SubSeq(s, 1, Len(s) - 1)) ELSE s

Trim(s) == TrimEnd(TrimStart(s))

\* Number.prototype.toString / String(n) of an integer
RECURSIVE NatToString(_)
NatToString(n) ==
  IF n < 10 THEN <<DigitChars[n + 1]>>
  ELSE NatToString(n \div 10) \o <<DigitChars[(n % 10) + 1]>>

NumToString(n) == IF n < 0 THEN <<"-">> \o NatToString(0 - n) ELSE NatToString(n)

\* parseInt(s, 10): leading white space, an optional sign, the longest run of
\* digits; NaN when there is no digit.
NaN == [isNaN |-> TRUE]
Number(n) == [isNaN |-> FALSE, n |-> n]

RECURSIVE ParseDigits(_, _)
ParseDigits(s, acc) ==
  IF s # <<>> /\ IsDigit(Head(s))
    THEN ParseDigits(Tail(s), acc * 10 + DigitVal(Head(s)))
    ELSE acc

ParseInt(str) ==
  LET s    == TrimStart(str)
      neg  == s # <<>> /\ Head(s) = "-"
      body == IF s # <<>> /\ Head(s) \in {"-", "+"} THEN Tail(s) ELSE s
  IN  IF body = <<>> \/ ~IsDigit(Head(body)) THEN NaN
      ELSE IF neg THEN Number(0 - ParseDigits(body, 0))
      ELSE Number(ParseDigits(body, 0))

\* ----------------------------------------------------------- sheet cells
\* A cell of the sheet: string | number | boolean | null, or undefined when
\* the row is shorter than the column index.
Str(s)    == [t |-> "string", s |-> s]
Num(n)    == [t |-> "number", n |-> n]
Bool(b)   == [t |-> "boolean", b |-> b]
Null      == [t |-> "null"]
Undefined == [t |-> "undefined"]

Cell(row, index) == IF index + 1 <= Len(row) THEN row[index + 1] ELSE Undefined

\* -------------------------------------------------------- getTemplateInfo
CoDirectors      == <<"c","o","-","d","i","r","e","c","t","o","r","s">>
CoDirectorSpace  == <<"c","o"," ","d","i","r","e","c","t","o","r">>
CoDirector       == <<"c","o","-","d","i","r","e","c","t","o","r">>
SeniorExecutives == <<"s","e","n","i","o","r"," ","e","x","e","c","u","t","i","v","e","s">>
SeniorExecutive  == <<"s","e","n","i","o","r"," ","e","x","e","c","u","t","i","v","e">>
Executives       == <<"e","x","e","c","u","t","i","v","e","s">>
Executive        == <<"e","x","e","c","u","t","i","v","e">>
JuniorExecutives == <<"j","u","n","i","o","r"," ","e","x","e","c","u","t","i","v","e","s">>
JuniorExecutive  == <<"j","u","n","i","o","r"," ","e","x","e","c","u","t","i","v","e">>
NewRecruits      == <<"n","e","w"," ","r","e","c","r","u","i","t","s">>
NewRecruit       == <<"n","e","w"," ","r","e","c","r","u","i","t">>
GeneralMembers   == <<"g","e","n","e","r","a","l"," ","m","e","m","b","e","r","s">>
GeneralMember    == <<"g","e","n","e","r","a","l"," ","m","e","m","b","e","r">>
Member           == <<"m","e","m","b","e","r">>

\* (role || ''): role is a string cell or undefined
RoleOrEmpty(role) == IF role.t = "string" THEN role.s ELSE <<>>

\* Variant: the role is compared as it is written in the sheet, neither
\* trimmed nor lower-cased.
getTemplateInfo_AsWritten(role) ==
  LET writtenRole == RoleOrEmpty(role)
  IN  IF writtenRole \in {CoDirectors, CoDirectorSpace, CoDirector}
        THEN [filename   |-> "low_activity_co_director.mjml",
              identifier |-> "low_activity_co_director"]
      ELSE IF writtenRole \in {SeniorExecutives, SeniorExecutive}
        THEN [filename   |-> "low_activity_senior_executive.mjml",
              identifier |-> "low_activity_senior_executive"]
      ELSE IF writtenRole \in {Executives, Executive}
        THEN [filename   |-> "low_activity_executive.mjml",
              identifier |-> "low_activity_executive"]
      ELSE IF writtenRole \in {JuniorExecutives, JuniorExecutive}
        THEN [filename   |-> "low_activity_junior_executive.mjml",
              identifier |-> "low_activity_junior_executive"]
      ELSE IF writtenRole \in {NewRecruits, NewRecruit}
        THEN [filename   |-> "low_activity_new_recruit.mjml",
              identifier |-> "low_activity_new_recruit"]
      ELSE [filename   |-> "low_activity_general_member.mjml",
            identifier |-> "low_activity_general_member"]

getTemplateInfo(role) ==
  LET normalizedRole == ToLowerCase(Trim(RoleOrEmpty(role)))
  IN  IF normalizedRole \in {CoDirectors, CoDirectorSpace, CoDirector}
        THEN [filename   |-> "low_activity_co_director.mjml",
              identifier |-> "low_activity_co_director"]
      ELSE IF normalizedRole \in {SeniorExecutives, SeniorExecutive}
        THEN [filename   |-> "low_activity_senior_executive.mjml",
              identifier |-> "low_activity_senior_executive"]
      ELSE IF normalizedRole \in {Executives, Executive}
        THEN [filename   |-> "low_activity_executive.mjml",
              identifier |-> "low_activity_executive"]
      ELSE IF normalizedRole \in {JuniorExecutives, JuniorExecutive}
        THEN [filename   |-> "low_activity_junior_executive.mjml",
              identifier |-> "low_activity_junior_executive"]
      ELSE IF normalizedRole \in {NewRecruits, NewRecruit}
        THEN [filename   |-> "low_activity_new_recruit.mjml",
              identifier |-> "low_activity_new_recruit"]
      ELSE IF normalizedRole \in {GeneralMembers, GeneralMember, Member}
        THEN [filename   |-> "low_activity_general_member.mjml",
              identifier |-> "low_activity_general_member"]
      ELSE [filename   |-> "low_activity_general_member.mjml",
            identifier |-> "low_activity_general_member"]

\* ------------------------------------------- row parsing and validation
\* One row of rawData.forEach: a member, or an entry of errorsList.
SheetError(rowIndex, reason, row) ==
  [ok |-> FALSE, error |-> [rowIndex |-> rowIndex, reason |-> reason, rowData |-> row]]

ParseRow(row, index) ==
  LET rowIndex           == index + 2
      emailValue         == Cell(row, COLUMN_INDICES.EMAIL)
      activityCountValue == Cell(row, COLUMN_INDICES.ACTIVITY_COUNT)
      nameValue          == Cell(row, COLUMN_INDICES.NAME)
      roleValue          == Cell(row, COLUMN_INDICES.ROLE)
      countStr           == IF activityCountValue.t = "number"
                              THEN NumToString(activityCountValue.n)
                              ELSE activityCountValue.s
  IN  IF emailValue.t # "string" \/ emailValue.s = <<>>
        THEN SheetError(rowIndex, "Invalid or missing email (Column B).", row)
      ELSE IF activityCountValue.t \in {"undefined", "null"}
        THEN SheetError(rowIndex, "Missing activity count (Column C).", row)
      ELSE IF activityCountValue.t \notin {"number", "string"}
        THEN SheetError(rowIndex, "Invalid activity count type (Column C).", row)
      ELSE IF ParseInt(countStr).isNaN
        THEN SheetError(rowIndex, "Invalid activity count value (Column C).", row)
      ELSE [ok |-> TRUE,
            member |-> [name          |-> IF nameValue.t = "string" THEN nameValue.s ELSE <<>>,
                        email         |-> emailValue.s,
                        activityCount |-> ParseInt(countStr).n,
                        role          |-> IF roleValue.t = "string" THEN roleValue ELSE Undefined,
                        rowIndex      |-> rowIndex]]

RECURSIVE ParseRows(_, _)
\* rawData.forEach from position `index` (0-based) on: the members pushed to
\* membersToProcess and the errors pushed to errorsList, in row order.
ParseRows(rawData, index) ==
  IF index >= Len(rawData) THEN [members |-> <<>>, errorsList |-> <<>>]
  ELSE LET r    == ParseRow(rawData[index + 1], index)
           rest == ParseRows(rawData, index + 1)
       IN  IF r.ok THEN [members    |-> <<r.member>> \o rest.members,
                         errorsList |-> rest.errorsList]
           ELSE [members    |-> rest.members,
                 errorsList |-> <<r.error>> \o rest.errorsList]

\* ---------------------------------------------------- threshold resolution
\* Variant: the scan starts with no role threshold.  Below it, the Map built
\* from prisma.roleThreshold.findMany(): roleName.toLowerCase() -> threshold.
RoleThresholdsMap_Empty(thresholdsFromDb) == [k \in {} |-> 0]

RoleThresholdsMap(thresholdsFromDb) ==
  [k \in {ToLowerCase(rt.roleName) : rt \in thresholdsFromDb} |->
     (CHOOSE rt \in thresholdsFromDb : ToLowerCase(rt.roleName) = k).threshold]

\* Variant: a count equal to the threshold is below it.
IsBelow_OrEqual(activityCount, effectiveThreshold) == activityCount <= effectiveThreshold

IsBelow(activityCount, effectiveThreshold) == activityCount < effectiveThreshold

EffectiveThreshold(role, roleThresholds) ==
  LET memberRoleLower == ToLowerCase(Trim(RoleOrEmpty(role)))
  IN  IF memberRoleLower \in DOMAIN roleThresholds
        THEN roleThresholds[memberRoleLower]
        ELSE DEFAULT_ACTIVITY_THRESHOLD

\* ------------------------------------------------------------------ state
VARIABLES
  emailQueue,     \* table email_queue: row id = position
  warningLog,     \* table warning_logs
  adminLog,       \* table admin_logs
  roleThreshold,  \* table role_thresholds: a set of rows, roleName unique
  outbox,         \* per entry id, the calls made to the email provider for it
  scan,           \* checkMemberActivity invocations: locals at their await points
  op,             \* updateEmailStatus invocations
  bulk,           \* approveAllQueuedEmails invocations
  disp,           \* processEmailQueue invocations
  hook,           \* Resend webhook requests
  ret             \* the response the last step returned: [by, value, obs]

dbVars == <<emailQueue, warningLog, adminLog, roleThreshold>>
procVars == <<scan, op, bulk, disp, hook>>
vars == <<emailQueue, warningLog, adminLog, roleThreshold, outbox,
          scan, op, bulk, disp, hook, ret>>

Scanners    == {"scan1", "scan2", "scan3"}
Operators   == {"op1", "op2"}
Bulkers     == {"bulk1"}
Dispatchers == {"cron", "manual"}
Hooks       == {"hook1", "hook2"}

\* getServerSession(authOptions): no session, or a user with id, email, role
NoSession      == [t |-> "none"]
PanelSession   == [t |-> "session", id |-> "u1", email |-> "panel@club", role |-> "PANEL"]
PanelNoEmail   == [t |-> "session", id |-> "u2", email |-> "", role |-> "PANEL"]
MemberSession  == [t |-> "session", id |-> "u3", email |-> "member@club", role |-> "MEMBER"]
Sessions       == {NoSession, PanelSession, PanelNoEmail, MemberSession}

\* !session || session.user?.role !== Role.PANEL
IsPanel(session) == session.t = "session" /\ session.role = "PANEL"
\* !session?.user?.id || !session.user.email || session.user.role !== Role.PANEL
IsPanelWithIdentity(session) ==
  session.t = "session" /\ session.id # "" /\ session.email # "" /\ session.role = "PANEL"

IdleScan == [pc |-> "idle"]
Idle     == [pc |-> "idle"]

\* ret is the response returned by the step just taken, if it returned one.
\* `obs` is what the returned run did besides answering (what a
\* processEmailQueue run did to each entry it fetched, what a completed
\* checkMemberActivity run read, queued and published; empty otherwise): it
\* is read by the properties only.
NoResponse == [by |-> "none", value |-> [success |-> TRUE], obs |-> <<>>]
ReturnObs(by, value, obs) == ret' = [by |-> by, value |-> value, obs |-> obs]
Return(by, value) == ReturnObs(by, value, <<>>)
\* a step that ends at an await, returning nothing yet
Continue == ret' = NoResponse

Init ==
  /\ emailQueue = <<>>
  /\ warningLog = <<>>
  /\ adminLog = <<>>
  /\ roleThreshold = {}
  /\ outbox = [id \in 1..MaxQueue |-> [calls |-> 0, accepted |-> 0]]
  /\ scan = [s \in Scanners |-> IdleScan]
  /\ op = [o \in Operators |-> Idle]
  /\ bulk = [b \in Bulkers |-> Idle]
  /\ disp = [d \in Dispatchers |-> Idle]
  /\ hook = [h \in Hooks |-> Idle]
  /\ ret = NoResponse

\* --------------------------------------------------- checkMemberActivity
UnexpectedError == "An unexpected error occurred"

\* Variant: the existence check looks at the pending entries only.
NonFailedStatuses_OnlyPending == {"QUEUED", "APPROVED"}

\* Variant: the existence check looks at the entries of every status.
NonFailedStatuses_WithFailed == {"QUEUED", "APPROVED", "CANCELED", "SENT", "FAILED"}

\* prisma.emailQueue.findFirst({recipientEmail, status in [QUEUED, APPROVED,
\* CANCELED, SENT]})
NonFailedStatuses == {"QUEUED", "APPROVED", "CANCELED", "SENT"}
\* Variant: the existence check finds nothing.
ExistingNonFailedEmail_Never(email) == FALSE

ExistingNonFailedEmail(email) ==
  \E i \in DOMAIN emailQueue :
     /\ emailQueue[i].recipientEmail = email
     /\ emailQueue[i].status \in NonFailedStatuses

\* name || 'Member'
NameOrMember == <<"M","e","m","b","e","r">>
DisplayName(name) == IF name = <<>> THEN NameOrMember ELSE name

\* The personalised template rendered by mjml: the template with {{name}},
\* {{activityCount}} and {{threshold}} replaced.
RenderedHtml(templateIdentifier, member, effectiveThreshold) ==
  [template      |-> templateIdentifier,
   name          |-> DisplayName(member.name),
   activityCount |-> NumToString(member.activityCount),
   threshold     |-> NumToString(effectiveThreshold)]

NewQueueEntry(member, effectiveThreshold) ==
  [recipientEmail  |-> member.email,
   recipientName   |-> member.name,
   subject         |-> <<"Club Activity Alert for ", DisplayName(member.name)>>,
   bodyHtml        |-> RenderedHtml(getTemplateInfo(member.role).identifier,
                                    member, effectiveThreshold),
   template        |-> getTemplateInfo(member.role).identifier,
   status          |-> "QUEUED",
   resendMessageId |-> <<>>,
   openedAt        |-> <<>>]

\* Variant: the log row records the default threshold.
NewWarningLog_DefaultThreshold(member, effectiveThreshold) ==
  [recipientEmail |-> member.email,
   recipientName  |-> member.name,
   activityCount  |-> member.activityCount,
   threshold      |-> DEFAULT_ACTIVITY_THRESHOLD,
   templateUsed   |-> getTemplateInfo(member.role).identifier,
   status         |-> "QUEUED",
   emailSentAt    |-> <<>>,
   emailOpened    |-> FALSE]

NewWarningLog(member, effectiveThreshold) ==
  [recipientEmail |-> member.email,
   recipientName  |-> member.name,
   activityCount  |-> member.activityCount,
   threshold      |-> effectiveThreshold,
   templateUsed   |-> getTemplateInfo(member.role).identifier,
   status         |-> "QUEUED",
   emailSentAt    |-> <<>>,
   emailOpened    |-> FALSE]

\* Variant: a sheet that could not be read is reported as a success.
FetchFailedResult_Success ==
  [success |-> TRUE, message |-> "Failed to fetch data from Google Sheet."]

\* Lines 134-136: the result when getSheetData gives null.
FetchFailedResult ==
  [success |-> FALSE, message |-> "Failed to fetch data from Google Sheet."]

\* Lines 100-216: the authorization check, the range check, the thresholds
\* read, the sheet read and the validation of every row.  `dbOk` is whether
\* roleThreshold.findMany() succeeds; `sheet` is what getSheetData() gives:
\* values, null (a caught failure) or an exception.
ScanStart(s, session, rangeConfigured, dbOk, sheet) ==
  /\ scan[s].pc = "idle"
  /\ UNCHANGED <<dbVars, outbox, op, bulk, disp, hook>>
  /\ IF ~IsPanel(session)
       THEN /\ Return(s, [success |-> FALSE,
                          message |-> "Unauthorized: You do not have permission to perform this action."])
            /\ UNCHANGED scan
     ELSE IF ~rangeConfigured
       THEN /\ Return(s, [success |-> FALSE,
                          message |-> "Member data sheet range is not configured."])
            /\ UNCHANGED scan
     ELSE IF ~dbOk \/ sheet.kind = "throws"
       THEN /\ Return(s, [success |-> FALSE, message |-> UnexpectedError,
                          errors |-> 0, errorsList |-> <<>>])
            /\ UNCHANGED scan
     ELSE IF sheet.kind = "null"
       THEN /\ Return(s, FetchFailedResult)
            /\ UNCHANGED scan
     ELSE IF Len(sheet.values) = 0
       THEN /\ Return(s, [success |-> TRUE,
                          message |-> "No member data found in the specified range.",
                          checked |-> 0, flagged |-> 0, errors |-> 0,
                          errorsList |-> <<>>])
            /\ UNCHANGED scan
     ELSE LET parsed == ParseRows(sheet.values, 0)
          IN  /\ scan' = [scan EXCEPT ![s] =
                    [pc                      |-> "check",
                     roleThresholds          |-> RoleThresholdsMap(roleThreshold),
                     rawData                 |-> sheet.values,
                     checkedCount            |-> Len(sheet.values),
                     membersToProcess        |-> parsed.members,
                     idx                     |-> 1,
                     flaggedCount            |-> 0,
                     belowThresholdCount     |-> 0,
                     errorCount              |-> Len(parsed.errorsList),
                     errorsList              |-> parsed.errorsList,
                     successfullyQueuedCount |-> 0]]
              /\ Continue

\* Lines 223-259: the next member of the loop: the threshold test and, for a
\* member below it, the findFirst for an existing non-FAILED entry (`dbOk`:
\* whether that query succeeds; its exception ends the scan in the outer
\* catch).
ScanCheck(s, dbOk) ==
  /\ scan[s].pc = "check"
  /\ scan[s].idx <= Len(scan[s].membersToProcess)
  /\ UNCHANGED <<dbVars, outbox, op, bulk, disp, hook>>
  /\ LET l      == scan[s]
         member == l.membersToProcess[l.idx]
         effectiveThreshold == EffectiveThreshold(member.role, l.roleThresholds)
     IN  IF ~IsBelow(member.activityCount, effectiveThreshold)
           THEN /\ scan' = [scan EXCEPT ![s].idx = l.idx + 1]
                /\ Continue
         ELSE IF ~dbOk
           THEN /\ Return(s, [success |-> FALSE, message |-> UnexpectedError,
                              errors |-> l.errorCount, errorsList |-> l.errorsList])
                /\ scan' = [scan EXCEPT ![s] = IdleScan]
         ELSE IF ExistingNonFailedEmail(member.email)
           THEN /\ scan' = [scan EXCEPT ![s].idx = l.idx + 1,
                                        ![s].belowThresholdCount = l.belowThresholdCount + 1]
                /\ Continue
         ELSE /\ scan' = [scan EXCEPT ![s].pc = "insert",
                                      ![s].belowThresholdCount = l.belowThresholdCount + 1,
                                      ![s].flaggedCount = l.flaggedCount + 1]
              /\ Continue

\* The row pushed to errorsList for a member (lines 274, 301, 310)
MemberError(member, reason) ==
  [rowIndex |-> member.rowIndex, reason |-> reason,
   rowData  |-> <<Str(member.name), Str(member.email), Num(member.activityCount),
                  IF member.role.t = "string" THEN member.role ELSE Null>>]

ScanOutcomes == {"template_load_failed", "template_empty", "mjml_errors",
                 "render_threw", "html_empty", "db_failed", "queued"}

\* Lines 259-353: for the flagged member, the template load, the render and
\* the transaction that creates the EmailQueue row and the WarningLog row.
ScanInsert(s, outcome) ==
  /\ scan[s].pc = "insert"
  /\ UNCHANGED <<adminLog, roleThreshold, outbox, op, bulk, disp, hook>>
  /\ Continue
  /\ LET l      == scan[s]
         member == l.membersToProcess[l.idx]
         effectiveThreshold == EffectiveThreshold(member.role, l.roleThresholds)
         next   == [l EXCEPT !.pc = "check", !.idx = l.idx + 1]
         failed(reason) ==
            [next EXCEPT !.errorCount = l.errorCount + 1,
                         !.errorsList = Append(l.errorsList, MemberError(member, reason))]
     IN  CASE outcome = "template_load_failed" ->
                /\ scan' = [scan EXCEPT ![s] = failed("Failed to load template")]
                /\ UNCHANGED <<emailQueue, warningLog>>
           [] outcome = "mjml_errors" ->
                /\ scan' = [scan EXCEPT ![s] = failed("MJML rendering errors")]
                /\ UNCHANGED <<emailQueue, warningLog>>
           [] outcome = "render_threw" ->
                /\ scan' = [scan EXCEPT ![s] = failed("Error rendering template")]
                /\ UNCHANGED <<emailQueue, warningLog>>
           [] outcome \in {"template_empty", "html_empty"} ->
                /\ scan' = [scan EXCEPT ![s] = next]
                /\ UNCHANGED <<emailQueue, warningLog>>
           [] outcome = "db_failed" ->
                /\ scan' = [scan EXCEPT ![s] = [next EXCEPT !.errorCount = l.errorCount + 1]]
                /\ UNCHANGED <<emailQueue, warningLog>>
           [] outcome = "queued" ->
                /\ Len(emailQueue) < MaxQueue
                /\ emailQueue' = Append(emailQueue, NewQueueEntry(member, effectiveThreshold))
                /\ warningLog' = Append(warningLog, NewWarningLog(member, effectiveThreshold))
                /\ scan' = [scan EXCEPT ![s] =
                     [next EXCEPT !.successfullyQueuedCount = l.successfullyQueuedCount + 1]]

\* Lines 356-366: after the loop, the notification and the result.  `obs`
\* records what the run read and did: the rows it read, the number of
\* entries it queued, and whether it published the queue event to Pusher
\* (only if it queued something; triggerPusherEvent never throws).
ScanReturn(s) ==
  /\ scan[s].pc = "check"
  /\ scan[s].idx > Len(scan[s].membersToProcess)
  /\ UNCHANGED <<dbVars, outbox, op, bulk, disp, hook>>
  /\ ReturnObs(s, [success |-> TRUE, message |-> "Activity check complete.",
                   checked |-> scan[s].checkedCount, flagged |-> scan[s].flaggedCount,
                   belowThreshold |-> scan[s].belowThresholdCount,
                   errors |-> scan[s].errorCount, errorsList |-> scan[s].errorsList],
                  [rawData   |-> scan[s].rawData,
                   queued    |-> scan[s].successfullyQueuedCount,
                   published |-> scan[s].successfullyQueuedCount > 0])
  /\ scan' = [scan EXCEPT ![s] = IdleScan]

\* ----------------------------------------------------- updateEmailStatus
\* Variant: the WarningLog rows are left as they are.
WarningLogSetStatus_Noop(log, recipientEmail, template, from, to) == log

\* Variant: the rows are updated whatever their status.
WarningLogSetStatus_AnyStatus(log, recipientEmail, template, from, to) ==
  [i \in DOMAIN log |->
     IF /\ log[i].recipientEmail = recipientEmail
        /\ log[i].templateUsed = template
       THEN [log[i] EXCEPT !.status = to]
       ELSE log[i]]

\* warningLog.updateMany({recipientEmail, templateUsed, status: from},
\*                       {status: to})
WarningLogSetStatus(log, recipientEmail, template, from, to) ==
  [i \in DOMAIN log |->
     IF /\ log[i].recipientEmail = recipientEmail
        /\ log[i].templateUsed = template
        /\ log[i].status = from
       THEN [log[i] EXCEPT !.status = to]
       ELSE log[i]]

\* Variant: the entry read is not required to be QUEUED.
UpdateRead_NoStatusCheck(o, session, emailId, newStatus, dbOk) ==
  /\ op[o].pc = "idle"
  /\ UNCHANGED <<dbVars, outbox, scan, bulk, disp, hook>>
  /\ IsPanelWithIdentity(session)
  /\ newStatus \in {"APPROVED", "CANCELED"}
  /\ dbOk
  /\ emailId \in DOMAIN emailQueue
  /\ op' = [op EXCEPT ![o] =
        [pc             |-> "write",
         emailId        |-> emailId,
         newStatus      |-> newStatus,
         adminUserId    |-> session.id,
         adminUserEmail |-> session.email,
         emailToUpdate  |-> [recipientEmail |-> emailQueue[emailId].recipientEmail,
                             template       |-> emailQueue[emailId].template,
                             status         |-> emailQueue[emailId].status]]]
  /\ Continue

\* Lines 541-569: the authorization check, the target-status check and the
\* findUnique that must show the entry QUEUED (`dbOk`: whether it succeeds).
UpdateRead(o, session, emailId, newStatus, dbOk) ==
  /\ op[o].pc = "idle"
  /\ UNCHANGED <<dbVars, outbox, scan, bulk, disp, hook>>
  /\ IF ~IsPanelWithIdentity(session)
       THEN /\ Return(o, [success |-> FALSE,
                          message |-> "Unauthorized or missing user data for logging."])
            /\ UNCHANGED op
     ELSE IF newStatus \notin {"APPROVED", "CANCELED"}
       THEN /\ Return(o, [success |-> FALSE, message |-> "Invalid target status specified."])
            /\ UNCHANGED op
     ELSE IF ~dbOk
       THEN /\ Return(o, [success |-> FALSE, message |-> UnexpectedError])
            /\ UNCHANGED op
     ELSE IF emailId \notin DOMAIN emailQueue
       THEN /\ Return(o, [success |-> FALSE, message |-> "Email not found."])
            /\ UNCHANGED op
     ELSE IF emailQueue[emailId].status # "QUEUED"
       THEN /\ Return(o, [success |-> FALSE,
                          message |-> "Email is not in QUEUED status. Cannot update."])
            /\ UNCHANGED op
     ELSE /\ op' = [op EXCEPT ![o] =
                [pc             |-> "write",
                 emailId        |-> emailId,
                 newStatus      |-> newStatus,
                 adminUserId    |-> session.id,
                 adminUserEmail |-> session.email,
                 emailToUpdate  |-> [recipientEmail |-> emailQueue[emailId].recipientEmail,
                                     template       |-> emailQueue[emailId].template,
                                     status         |-> emailQueue[emailId].status]]]
          /\ Continue

\* Lines 571-617: the transaction of the three writes (`dbOk`: whether it
\* commits; a failed transaction applies none of them).
UpdateWrite(o, dbOk) ==
  /\ op[o].pc = "write"
  /\ UNCHANGED <<roleThreshold, outbox, scan, bulk, disp, hook>>
  /\ op' = [op EXCEPT ![o] = Idle]
  /\ LET l == op[o]
     IN  IF dbOk
           THEN /\ Len(adminLog) < MaxAdminLog
                /\ emailQueue' = [emailQueue EXCEPT ![l.emailId].status = l.newStatus]
                /\ warningLog' = WarningLogSetStatus(warningLog,
                                    l.emailToUpdate.recipientEmail,
                                    l.emailToUpdate.template, "QUEUED", l.newStatus)
                /\ adminLog' = Append(adminLog,
                     [adminUserId    |-> l.adminUserId,
                      adminUserEmail |-> l.adminUserEmail,
                      action         |-> IF l.newStatus = "APPROVED"
                                           THEN "approved_email" ELSE "canceled_email",
                      details        |-> [emailId       |-> l.emailId,
                                          updatedStatus |-> l.newStatus,
                                          recipient     |-> l.emailToUpdate.recipientEmail]])
                /\ Return(o, [success |-> TRUE, message |-> "Email status updated."])
           ELSE /\ UNCHANGED <<emailQueue, warningLog, adminLog>>
                /\ Return(o, [success |-> FALSE, message |-> UnexpectedError])

\* ------------------------------------------------- approveAllQueuedEmails
\* emailQueue.findMany({status}): the rows with their ids, in id order
RECURSIVE FindManyFrom(_, _, _)
FindManyFrom(queue, status, i) ==
  IF i > Len(queue) THEN <<>>
  ELSE (IF queue[i].status = status
          THEN <<[id             |-> i,
                  recipientEmail |-> queue[i].recipientEmail,
                  subject        |-> queue[i].subject,
                  bodyHtml       |-> queue[i].bodyHtml,
                  template       |-> queue[i].template]>>
          ELSE <<>>) \o FindManyFrom(queue, status, i + 1)

FindMany(queue, status) == FindManyFrom(queue, status, 1)

Ids(rows) == {rows[i].id : i \in DOMAIN rows}

\* Lines 1301-1326: the authorization check and the findMany of the QUEUED
\* entries (`dbOk`: whether it succeeds).
BulkRead(b, session, dbOk) ==
  /\ bulk[b].pc = "idle"
  /\ UNCHANGED <<dbVars, outbox, scan, op, disp, hook>>
  /\ IF ~IsPanelWithIdentity(session)
       THEN /\ Return(b, [success |-> FALSE,
                          message |-> "Unauthorized or missing user data for logging."])
            /\ UNCHANGED bulk
     ELSE IF ~dbOk
       THEN /\ Return(b, [success |-> FALSE, message |-> UnexpectedError])
            /\ UNCHANGED bulk
     ELSE IF Len(FindMany(emailQueue, "QUEUED")) = 0
       THEN /\ Return(b, [success |-> TRUE, message |-> "No emails were pending approval.",
                          approvedCount |-> 0])
            /\ UNCHANGED bulk
     ELSE /\ bulk' = [bulk EXCEPT ![b] =
                [pc             |-> "write",
                 adminUserId    |-> session.id,
                 adminUserEmail |-> session.email,
                 queuedEmails   |-> FindMany(emailQueue, "QUEUED")]]
          /\ Continue

RECURSIVE ApproveWarningLogs(_, _, _)
\* Lines 1341-1350: for each email read, the updateMany of its QUEUED logs
ApproveWarningLogs(log, queuedEmails, i) ==
  IF i > Len(queuedEmails) THEN log
  ELSE ApproveWarningLogs(
         WarningLogSetStatus(log, queuedEmails[i].recipientEmail,
                             queuedEmails[i].template, "QUEUED", "APPROVED"),
         queuedEmails, i + 1)

\* Variant: the approval also clears the body of the entries.
ApproveByIds_ClearsBody(queue, emailIdsToApprove) ==
  [i \in DOMAIN queue |->
     IF i \in emailIdsToApprove
       THEN [queue[i] EXCEPT !.status = "APPROVED", !.bodyHtml = <<>>]
     ELSE queue[i]]

\* emailQueue.updateMany({id in emailIdsToApprove}, {status: APPROVED})
ApproveByIds(queue, emailIdsToApprove) ==
  [i \in DOMAIN queue |->
     IF i \in emailIdsToApprove THEN [queue[i] EXCEPT !.status = "APPROVED"]
     ELSE queue[i]]

\* Lines 1328-1381: the transaction (`dbOk`: whether it commits).
BulkWrite(b, dbOk) ==
  /\ bulk[b].pc = "write"
  /\ UNCHANGED <<roleThreshold, outbox, scan, op, disp, hook>>
  /\ bulk' = [bulk EXCEPT ![b] = Idle]
  /\ LET l == bulk[b]
         emailIdsToApprove == Ids(l.queuedEmails)
         approvedCount == Len(l.queuedEmails)
     IN  IF dbOk
           THEN /\ Len(adminLog) < MaxAdminLog
                /\ emailQueue' = ApproveByIds(emailQueue, emailIdsToApprove)
                /\ warningLog' = ApproveWarningLogs(warningLog, l.queuedEmails, 1)
                /\ adminLog' = Append(adminLog,
                     [adminUserId    |-> l.adminUserId,
                      adminUserEmail |-> l.adminUserEmail,
                      action         |-> "approved_all_queued_emails",
                      details        |-> [approvedCount |-> approvedCount,
                                          emailIds      |-> emailIdsToApprove]])
                /\ Return(b, [success |-> TRUE, message |-> "Successfully approved emails.",
                              approvedCount |-> approvedCount])
           ELSE /\ UNCHANGED <<emailQueue, warningLog, adminLog>>
                /\ Return(b, [success |-> FALSE, message |-> UnexpectedError])

\* ------------------------------------------------------------- sendEmail
\* What the provider does with resend.emails.send: accepts the email and
\* answers {data: {id}, error: null}, answers {data: null, error}, or throws.
ProviderOutcomes == {"accepted", "rejected", "throws"}

\* sendEmail (lib/resend.ts): null when the client is not configured or the
\* provider call throws, else the provider's response.
SendEmail(resendConfigured, provider, messageId) ==
  IF ~resendConfigured THEN [kind |-> "null"]
  ELSE IF provider = "throws" THEN [kind |-> "null"]
  ELSE IF provider = "accepted"
    THEN [kind |-> "response", data |-> <<messageId>>, error |-> FALSE]
  ELSE [kind |-> "response", data |-> <<>>, error |-> TRUE]

\* Variant: any response of the provider counts as a success.
SendSucceeded_IgnoresError(sendResult) == sendResult.kind = "response"

\* sendResult && !sendResult.error
SendSucceeded(sendResult) == sendResult.kind = "response" /\ ~sendResult.error

\* (finalStatus === SENT && sendResult?.data?.id) ? sendResult.data.id : null
MessageIdToStore(finalStatus, sendResult) ==
  IF finalStatus = "SENT" /\ sendResult.kind = "response" /\ sendResult.data # <<>>
    THEN sendResult.data ELSE <<>>

\* ------------------------------------------------------ processEmailQueue
\* Lines 386-408: the findMany of the APPROVED entries (`dbOk`: whether it
\* succeeds).
DispatchFetch(d, dbOk) ==
  /\ disp[d].pc = "idle"
  /\ UNCHANGED <<dbVars, outbox, scan, op, bulk, hook>>
  /\ IF ~dbOk
       THEN /\ Return(d, [success |-> FALSE, message |-> UnexpectedError])
            /\ UNCHANGED disp
     ELSE IF Len(FindMany(emailQueue, "APPROVED")) = 0
       THEN /\ Return(d, [success |-> TRUE, message |-> "No emails were approved for sending.",
                          processed |-> 0, sent |-> 0, failed |-> 0])
            /\ UNCHANGED disp
     ELSE /\ disp' = [disp EXCEPT ![d] =
                [pc              |-> "send",
                 emailsToProcess |-> FindMany(emailQueue, "APPROVED"),
                 idx             |-> 1,
                 sentCount       |-> 0,
                 failedCount     |-> 0,
                 finalStatus     |-> "",
                 sendResult      |-> [kind |-> "null"],
                 attempts        |-> <<>>]]
          /\ Continue

RECURSIVE SumCalls(_, _)
SumCalls(box, i) == IF i = 0 THEN 0 ELSE box[i].calls + SumCalls(box, i - 1)
\* the calls made to the provider so far
ProviderCalls == SumCalls(outbox, MaxQueue)

\* Lines 411-437: the send of the current entry.  With the client configured
\* the provider is called, and the call is counted in outbox; the provider
\* gives each call a fresh message id.
DispatchSend(d, resendConfigured, provider) ==
  /\ disp[d].pc = "send"
  /\ disp[d].idx <= Len(disp[d].emailsToProcess)
  /\ UNCHANGED <<dbVars, scan, op, bulk, hook>>
  /\ Continue
  /\ LET l          == disp[d]
         email      == l.emailsToProcess[l.idx]
         messageId  == ProviderCalls + 1
         sendResult == SendEmail(resendConfigured, provider, messageId)
         ok         == SendSucceeded(sendResult)
     IN  /\ IF resendConfigured
              THEN /\ ProviderCalls < MaxSends
                   /\ outbox' = [outbox EXCEPT
                         ![email.id].calls = @ + 1,
                         ![email.id].accepted = IF provider = "accepted" THEN @ + 1 ELSE @]
              ELSE UNCHANGED outbox
         /\ disp' = [disp EXCEPT ![d] =
               [l EXCEPT !.pc = "write",
                         !.sendResult = sendResult,
                         !.finalStatus = IF ok THEN "SENT" ELSE "FAILED",
                         !.sentCount = IF ok THEN l.sentCount + 1 ELSE l.sentCount,
                         !.failedCount = IF ok THEN l.failedCount ELSE l.failedCount + 1]]

\* Variant: the transaction commits without storing the status.
DispatchWrite_KeepsStatus(d, dbOk) ==
  /\ disp[d].pc = "write"
  /\ UNCHANGED <<dbVars, outbox, scan, op, bulk, hook>>
  /\ Continue
  /\ disp' = [disp EXCEPT ![d] =
        [disp[d] EXCEPT
           !.pc = "send", !.idx = disp[d].idx + 1,
           !.attempts = Append(disp[d].attempts,
              [id |-> disp[d].emailsToProcess[disp[d].idx].id,
               sendResult |-> disp[d].sendResult,
               finalStatus |-> disp[d].finalStatus, written |-> dbOk])]]

\* Variant: a failed status write ends the loop.
DispatchWrite_StopsRun(d, dbOk) ==
  /\ disp[d].pc = "write"
  /\ ~dbOk
  /\ UNCHANGED <<dbVars, outbox, scan, op, bulk, hook>>
  /\ Continue
  /\ disp' = [disp EXCEPT ![d] =
        [disp[d] EXCEPT
           !.pc = "send", !.idx = Len(disp[d].emailsToProcess) + 1,
           !.attempts = Append(disp[d].attempts,
              [id |-> disp[d].emailsToProcess[disp[d].idx].id,
               sendResult |-> disp[d].sendResult,
               finalStatus |-> "FAILED", written |-> FALSE])]]

\* Lines 439-473: the transaction that stores the entry's final status and
\* message id and updates its APPROVED WarningLog rows (`dbOk`: whether it
\* commits).
DispatchWrite(d, dbOk) ==
  /\ disp[d].pc = "write"
  /\ UNCHANGED <<adminLog, roleThreshold, outbox, scan, op, bulk, hook>>
  /\ Continue
  /\ LET l     == disp[d]
         email == l.emailsToProcess[l.idx]
         messageIdToStore == MessageIdToStore(l.finalStatus, l.sendResult)
         attempt == [id |-> email.id, sendResult |-> l.sendResult,
                     finalStatus |-> l.finalStatus, written |-> dbOk]
         next  == [l EXCEPT !.pc = "send", !.idx = l.idx + 1,
                            !.attempts = Append(l.attempts, attempt)]
     IN  IF dbOk
           THEN /\ emailQueue' = [emailQueue EXCEPT
                                    ![email.id].status = l.finalStatus,
                                    ![email.id].resendMessageId = messageIdToStore]
                /\ warningLog' =
                     [i \in DOMAIN warningLog |->
                        IF /\ warningLog[i].recipientEmail = email.recipientEmail
                           /\ warningLog[i].templateUsed = email.template
                           /\ warningLog[i].status = "APPROVED"
                          THEN [warningLog[i] EXCEPT
                                  !.status = l.finalStatus,
                                  !.emailSentAt = IF l.finalStatus = "SENT"
                                                    THEN <<"now">> ELSE <<>>]
                          ELSE warningLog[i]]
                /\ disp' = [disp EXCEPT ![d] = next]
           ELSE /\ UNCHANGED <<emailQueue, warningLog>>
                /\ disp' = [disp EXCEPT ![d] =
                     [next EXCEPT
                        !.failedCount = IF l.finalStatus # "FAILED"
                                          THEN l.failedCount + 1 ELSE l.failedCount,
                        !.sentCount = IF l.finalStatus = "SENT"
                                        THEN l.sentCount - 1 ELSE l.sentCount,
                        !.finalStatus = "FAILED"]]

\* Lines 476-485: after the loop, the notification and the result.
DispatchReturn(d) ==
  /\ disp[d].pc = "send"
  /\ disp[d].idx > Len(disp[d].emailsToProcess)
  /\ UNCHANGED <<dbVars, outbox, scan, op, bulk, hook>>
  /\ ReturnObs(d, [success |-> TRUE, message |-> "Email queue processing finished.",
                   processed |-> Len(disp[d].emailsToProcess),
                   sent |-> disp[d].sentCount, failed |-> disp[d].failedCount],
               [fetched |-> Ids(disp[d].emailsToProcess), attempts |-> disp[d].attempts])
  /\ disp' = [disp EXCEPT ![d] = Idle]

\* ------------------------------------------------- Resend webhook (POST)
\* prisma.emailQueue.findFirst({where: {resendMessageId}}): the first row
\* with that message id, 0 when there is none.
RECURSIVE FindFirstByMessageIdFrom(_, _, _)
FindFirstByMessageIdFrom(queue, resendMessageId, i) ==
  IF i > Len(queue) THEN 0
  ELSE IF queue[i].resendMessageId = resendMessageId THEN i
  ELSE FindFirstByMessageIdFrom(queue, resendMessageId, i + 1)
\* Variant: the lookup gives the first row, whatever its message id.
FindFirstByMessageId_FirstRow(queue, resendMessageId) ==
  IF Len(queue) = 0 THEN 0 ELSE 1

FindFirstByMessageId(queue, resendMessageId) ==
  FindFirstByMessageIdFrom(queue, resendMessageId, 1)

HttpResponse(status, text) == [success |-> status = 200, status |-> status, message |-> text]

\* Lines 74-119: the event type check and the lookup of the entry.
\* `eventType` is payload.type, `emailId` is payload.data.email_id (<<>> when
\* missing), `openedTimestamp` is the time of payload.data.created_at or the
\* time of the request, `dbOk` is whether the lookup succeeds.  `obs` of the
\* response is the request it answers.
WebhookRead(h, eventType, emailId, openedTimestamp, dbOk) ==
  /\ hook[h].pc = "idle"
  /\ UNCHANGED <<dbVars, outbox, scan, op, bulk, disp>>
  /\ LET request == [eventType |-> eventType, emailId |-> emailId, dbOk |-> dbOk] IN
     IF eventType # "email.opened"
       THEN /\ ReturnObs(h, HttpResponse(200, "Event type not handled or payload invalid"), request)
            /\ UNCHANGED hook
     ELSE IF emailId = <<>>
       THEN /\ ReturnObs(h, HttpResponse(400, "Missing email_id in payload"), request)
            /\ UNCHANGED hook
     ELSE IF ~dbOk
       THEN /\ ReturnObs(h, HttpResponse(500, "Internal Server Error during webhook processing"), request)
            /\ UNCHANGED hook
     ELSE LET id == FindFirstByMessageId(emailQueue, emailId) IN
          IF id = 0
            THEN /\ ReturnObs(h, HttpResponse(200, "Email entry not found, but acknowledged"), request)
                 /\ UNCHANGED hook
          ELSE IF emailQueue[id].openedAt # <<>>
            THEN /\ ReturnObs(h, HttpResponse(200, "Event acknowledged, email already marked opened."), request)
                 /\ UNCHANGED hook
          ELSE /\ Continue
               /\ hook' = [hook EXCEPT ![h] =
                    [pc |-> "write",
                     resendMessageId |-> emailId,
                     openedTimestamp |-> openedTimestamp,
                     emailEntry |-> [id |-> id,
                                     recipientEmail |-> emailQueue[id].recipientEmail,
                                     template |-> emailQueue[id].template]]]

\* Lines 121-144: the transaction that stores openedAt on the entry and
\* marks every WarningLog row of its recipient and template as opened.
WebhookWrite(h, dbOk) ==
  /\ hook[h].pc = "write"
  /\ UNCHANGED <<adminLog, roleThreshold, outbox, scan, op, bulk, disp>>
  /\ hook' = [hook EXCEPT ![h] = Idle]
  /\ LET emailEntry == hook[h].emailEntry IN
     IF dbOk
       THEN /\ emailQueue' = [emailQueue EXCEPT ![emailEntry.id].openedAt =
                                                      <<hook[h].openedTimestamp>>]
            /\ warningLog' =
                 [i \in DOMAIN warningLog |->
                    IF /\ warningLog[i].recipientEmail = emailEntry.recipientEmail
                       /\ warningLog[i].templateUsed = emailEntry.template
                      THEN [warningLog[i] EXCEPT !.emailOpened = TRUE]
                      ELSE warningLog[i]]
            /\ Return(h, HttpResponse(200, "Webhook processed successfully"))
       ELSE /\ UNCHANGED <<emailQueue, warningLog>>
            /\ Return(h, HttpResponse(500, "Internal Server Error during webhook processing"))

\* ----------------------------------------- getEmailQueue, getEmailBodyHtml
\* the select of getEmailQueue on the QUEUED rows, in creation order
RECURSIVE QueuedEmailSummariesFrom(_, _)
QueuedEmailSummariesFrom(queue, i) ==
  IF i > Len(queue) THEN <<>>
  ELSE (IF queue[i].status = "QUEUED"
          THEN <<[id             |-> i,
                  recipientEmail |-> queue[i].recipientEmail,
                  recipientName  |-> queue[i].recipientName,
                  subject        |-> queue[i].subject,
                  template       |-> queue[i].template]>>
          ELSE <<>>) \o QueuedEmailSummariesFrom(queue, i + 1)

\* Lines 494-532.  `dbOk`: whether the findMany succeeds.
GetEmailQueue(session, dbOk) ==
  /\ UNCHANGED <<dbVars, outbox, procVars>>
  /\ IF ~IsPanel(session)
       THEN Return("getEmailQueue", [success |-> FALSE,
               message |-> "Unauthorized: You do not have permission to view the email queue."])
     ELSE IF ~dbOk
       THEN Return("getEmailQueue", [success |-> FALSE, message |-> UnexpectedError])
     ELSE Return("getEmailQueue", [success |-> TRUE, message |-> "Fetched queued emails.",
                                   emails |-> QueuedEmailSummariesFrom(emailQueue, 1)])

\* Lines 621-660.  `dbOk`: whether the findUnique succeeds.
GetEmailBodyHtml(session, emailId, dbOk) ==
  /\ UNCHANGED <<dbVars, outbox, procVars>>
  /\ IF ~IsPanel(session)
       THEN Return("getEmailBodyHtml", [success |-> FALSE,
               message |-> "Unauthorized: You do not have permission to preview emails."])
     ELSE IF ~dbOk
       THEN Return("getEmailBodyHtml", [success |-> FALSE, message |-> UnexpectedError])
     ELSE IF emailId \notin DOMAIN emailQueue
       THEN Return("getEmailBodyHtml", [success |-> FALSE, message |-> "Email not found."])
     ELSE Return("getEmailBodyHtml", [success |-> TRUE,
                                      message |-> "Fetched email HTML content.",
                                      htmlContent |-> emailQueue[emailId].bodyHtml])

\* ---------------------------------------------------- upsertRoleThreshold
\* Lines 690-760.  `threshold` is a number or NaN; `dbOk`: whether the
\* transaction (findUnique, upsert, adminLog.create) commits.
UpsertRoleThreshold(session, roleName, threshold, dbOk) ==
  /\ UNCHANGED <<emailQueue, warningLog, outbox, procVars>>
  /\ LET normalizedRoleName == ToLowerCase(Trim(roleName))
         existing == {rt \in roleThreshold : rt.roleName = normalizedRoleName}
     IN  IF ~IsPanelWithIdentity(session)
           THEN /\ Return("upsert", [success |-> FALSE,
                        message |-> "Unauthorized or missing user data for logging."])
                /\ UNCHANGED <<roleThreshold, adminLog>>
         ELSE IF normalizedRoleName = <<>>
           THEN /\ Return("upsert", [success |-> FALSE, message |-> "Role name cannot be empty."])
                /\ UNCHANGED <<roleThreshold, adminLog>>
         ELSE IF threshold.isNaN \/ threshold.n < 0
           THEN /\ Return("upsert", [success |-> FALSE,
                        message |-> "Threshold must be a non-negative number."])
                /\ UNCHANGED <<roleThreshold, adminLog>>
         ELSE IF ~dbOk
           THEN /\ Return("upsert", [success |-> FALSE, message |-> UnexpectedError])
                /\ UNCHANGED <<roleThreshold, adminLog>>
         ELSE /\ Len(adminLog) < MaxAdminLog
              /\ roleThreshold' = (roleThreshold \ existing) \cup
                     {[roleName |-> normalizedRoleName, threshold |-> threshold.n]}
              /\ adminLog' = Append(adminLog,
                   [adminUserId    |-> session.id,
                    adminUserEmail |-> session.email,
                    action         |-> "upsert_role_threshold",
                    details        |-> [roleName          |-> normalizedRoleName,
                                        newThreshold      |-> threshold.n,
                                        previousThreshold |-> {rt.threshold : rt \in existing}]])
              /\ Return("upsert", [success |-> TRUE, message |-> "Threshold set.",
                                   threshold |-> [roleName |-> normalizedRoleName,
                                                  threshold |-> threshold.n]])

\* ------------------------------------------------------------ cron routes
\* `Bearer ${cronSecret}`: an unset variable is written "undefined"
TemplateString(value) == IF value.t = "undefined" THEN "undefined" ELSE value.s
Bearer(cronSecret) == <<"Bearer ", TemplateString(cronSecret)>>

\* !cronSecret: the variable is unset or empty
SecretMissing(cronSecret) == cronSecret.t = "undefined" \/ cronSecret.s = ""

\* authorizationHeader !== `Bearer ${cronSecret}` (the header is null when
\* the request has none)
HeaderDiffers(authorizationHeader, cronSecret) ==
  ~(authorizationHeader.t = "string" /\ authorizationHeader.s = Bearer(cronSecret))

\* the response of NextResponse.json(body, {status})
JsonResponse(status, text) == [success |-> FALSE, status |-> status, message |-> text]

\* Variant: the gate compares the header in production only if the secret is
\* set.
GateResponse_SkipsWhenUnset(production, cronSecret, authorizationHeader) ==
  IF production /\ ~SecretMissing(cronSecret)
        /\ HeaderDiffers(authorizationHeader, cronSecret)
    THEN JsonResponse(401, "Unauthorized.")
    ELSE [status |-> 0]

\* The security check of both routes (check-activity lines 9-23,
\* process-queue lines 10-24): the response that rejects the request, or
\* status 0 when the request passes.  `production` is
\* NODE_ENV === 'production'.
GateResponse(production, cronSecret, authorizationHeader) ==
  IF production /\ SecretMissing(cronSecret)
    THEN JsonResponse(500, "Internal configuration error.")
  ELSE IF production /\ HeaderDiffers(authorizationHeader, cronSecret)
    THEN JsonResponse(401, "Unauthorized.")
  ELSE [status |-> 0]

\* GET /api/cron/check-activity: the security check, then checkMemberActivity
\* called in the request's context (`session` is what getServerSession finds
\* in it); the route answers with the result, with status 200 if it is a
\* success and 500 otherwise.
CronCheckActivity(s, production, cronSecret, authorizationHeader, session, rangeConfigured, dbOk, sheet) ==
  LET gate == GateResponse(production, cronSecret, authorizationHeader)
  IN  IF gate.status # 0
        THEN /\ scan[s].pc = "idle"
             /\ UNCHANGED <<dbVars, outbox, procVars>>
             /\ Return(s, gate)
        ELSE ScanStart(s, session, rangeConfigured, dbOk, sheet)

\* GET /api/cron/process-queue: the security check, then processEmailQueue.
CronProcessQueue(d, production, cronSecret, authorizationHeader, dbOk) ==
  LET gate == GateResponse(production, cronSecret, authorizationHeader)
  IN  IF gate.status # 0
        THEN /\ disp[d].pc = "idle"
             /\ UNCHANGED <<dbVars, outbox, procVars>>
             /\ Return(d, gate)
        ELSE DispatchFetch(d, dbOk)

\* the status of the response that carries the result of the action
ResultStatus(result) == IF result.success THEN 200 ELSE 500

\* ------------------------------------------------------------ sample data
EmailA == <<"a","@","x">>
EmailB == <<"b","@","x">>
Alice  == <<"A","l","i","c","e">>
Bob    == <<"B","o","b">>

\* Scenario A of the specification: ["Alice","a@x.com",3,"Executive"]
RowAlice    == <<Str(Alice), Str(EmailA), Num(3), Str(<<"E","x","e","c","u","t","i","v","e">>)>>
\* the same recipient in a second row, with the role in another spelling
RowAliceDup == <<Str(Alice), Str(EmailA), Str(<<"2">>), Str(<<" ","e","x","e","c","u","t","i","v","e","s"," ">>)>>
\* a row without the role column
RowBob      == <<Str(Bob), Str(EmailB), Num(4)>>

Values(rows) == [kind |-> "values", values |-> rows]
SheetNull    == [kind |-> "null"]
SheetThrows  == [kind |-> "throws"]

\* The sheets the lifecycle specifications scan.
LifecycleSheets == {Values(<<RowAlice, RowBob>>), Values(<<RowAlice, RowAliceDup>>)}

\* ------------------------------------------------------- specifications
AllIdle ==
  /\ \A s \in Scanners : scan[s].pc = "idle"
  /\ \A o \in Operators : op[o].pc = "idle"
  /\ \A b \in Bulkers : bulk[b].pc = "idle"
  /\ \A d \in Dispatchers : disp[d].pc = "idle"
  /\ \A h \in Hooks : hook[h].pc = "idle"

RaceScanners    == {"scan1"}
RaceOperators   == {"op1", "op2"}
RaceDispatchers == {"cron"}
RaceHooks       == {"hook1"}

\* the operations between two of their awaits
InFlight ==
  Cardinality({s \in Scanners : scan[s].pc # "idle"})
  + Cardinality({o \in Operators : op[o].pc # "idle"})
  + Cardinality({b \in Bulkers : bulk[b].pc # "idle"})
  + Cardinality({d \in Dispatchers : disp[d].pc # "idle"})
  + Cardinality({h \in Hooks : hook[h].pc # "idle"})

\* the message ids the provider has given out
MessageIds == {<<n>> : n \in 1..MaxSends}

\* The inputs of a start step: all well, or one thing wrong (a later input
\* is not read once an earlier check has failed).
BadSessions == Sessions \ {PanelSession}

\* Every operation may start while others are between two of their awaits:
\* the requests of several operators, the cron jobs and the webhook are
\* served concurrently, at most MaxInFlight of them at a time.
Next ==
  \/ /\ InFlight < MaxInFlight
     /\ \/ \E s \in RaceScanners : ScanStart(s, PanelSession, TRUE, TRUE, Values(<<RowAlice>>))
        \/ \E o \in RaceOperators, emailId \in 1..MaxQueue, newStatus \in {"APPROVED", "CANCELED"} :
              UpdateRead(o, PanelSession, emailId, newStatus, TRUE)
        \/ \E b \in Bulkers : BulkRead(b, PanelSession, TRUE)
        \/ \E d \in RaceDispatchers : DispatchFetch(d, TRUE)
        \/ \E h \in RaceHooks, emailId \in MessageIds :
              WebhookRead(h, "email.opened", emailId, 1, TRUE)
  \/ \E s \in RaceScanners : ScanCheck(s, TRUE)
  \/ \E s \in RaceScanners, outcome \in {"queued", "db_failed"} : ScanInsert(s, outcome)
  \/ \E s \in RaceScanners : ScanReturn(s)
  \/ \E o \in RaceOperators, dbOk \in BOOLEAN : UpdateWrite(o, dbOk)
  \/ \E b \in Bulkers, dbOk \in BOOLEAN : BulkWrite(b, dbOk)
  \/ \E d \in RaceDispatchers, provider \in {"accepted", "rejected"} :
        DispatchSend(d, TRUE, provider)
  \/ \E d \in RaceDispatchers, dbOk \in BOOLEAN : DispatchWrite(d, dbOk)
  \/ \E d \in RaceDispatchers : DispatchReturn(d)
  \/ \E h \in RaceHooks, dbOk \in BOOLEAN : WebhookWrite(h, dbOk)

Spec == Init /\ [][Next]_vars

\* The operations one at a time: an operation starts only when no other is
\* in progress.
NextSeq ==
  \/ /\ AllIdle
     /\ \/ \E sheet \in LifecycleSheets \cup {SheetNull, SheetThrows, Values(<<>>)} :
              ScanStart("scan1", PanelSession, TRUE, TRUE, sheet)
        \/ \E session \in BadSessions : ScanStart("scan1", session, TRUE, TRUE, SheetNull)
        \/ \E rangeConfigured, dbOk \in BOOLEAN :
              /\ ~(rangeConfigured /\ dbOk)
              /\ ScanStart("scan1", PanelSession, rangeConfigured, dbOk, SheetNull)
        \/ \E emailId \in 1..(MaxQueue + 1), newStatus \in EmailStatus :
              UpdateRead("op1", PanelSession, emailId, newStatus, TRUE)
        \/ \E session \in BadSessions : UpdateRead("op1", session, 1, "APPROVED", TRUE)
        \/ UpdateRead("op1", PanelSession, 1, "APPROVED", FALSE)
        \/ \E dbOk \in BOOLEAN : BulkRead("bulk1", PanelSession, dbOk)
        \/ \E session \in BadSessions : BulkRead("bulk1", session, TRUE)
        \/ \E dbOk \in BOOLEAN : DispatchFetch("cron", dbOk)
        \/ \E emailId \in MessageIds \cup {<<>>} :
              WebhookRead("hook1", "email.opened", emailId, 1, TRUE)
        \/ WebhookRead("hook1", "email.delivered", <<1>>, 1, TRUE)
        \/ WebhookRead("hook1", "email.opened", <<1>>, 1, FALSE)
  \/ \E dbOk \in BOOLEAN : ScanCheck("scan1", dbOk)
  \/ \E outcome \in {"queued", "db_failed", "template_load_failed"} :
        ScanInsert("scan1", outcome)
  \/ ScanReturn("scan1")
  \/ \E dbOk \in BOOLEAN : UpdateWrite("op1", dbOk)
  \/ \E dbOk \in BOOLEAN : BulkWrite("bulk1", dbOk)
  \/ \E provider \in ProviderOutcomes : DispatchSend("cron", TRUE, provider)
  \/ DispatchSend("cron", FALSE, "throws")
  \/ \E dbOk \in BOOLEAN : DispatchWrite("cron", dbOk)
  \/ DispatchReturn("cron")
  \/ \E dbOk \in BOOLEAN : WebhookWrite("hook1", dbOk)

SpecSeq == Init /\ [][NextSeq]_vars

\* Approvals and cancellations by an operator, one operation at a time:
\* scans queue the entries, approveAllQueuedEmails approves them in bulk and
\* a dispatcher run sends what was approved.
NextApproval ==
  \/ /\ AllIdle
     /\ \/ \E sheet \in LifecycleSheets : ScanStart("scan1", PanelSession, TRUE, TRUE, sheet)
        \/ \E emailId \in 1..(MaxQueue + 1), newStatus \in {"APPROVED", "CANCELED"} :
              UpdateRead("op1", PanelSession, emailId, newStatus, TRUE)
        \/ \E newStatus \in EmailStatus \ {"APPROVED", "CANCELED"} :
              UpdateRead("op1", PanelSession, 1, newStatus, TRUE)
        \/ \E session \in BadSessions : UpdateRead("op1", session, 1, "APPROVED", TRUE)
        \/ UpdateRead("op1", PanelSession, 1, "APPROVED", FALSE)
        \/ BulkRead("bulk1", PanelSession, TRUE)
        \/ DispatchFetch("cron", TRUE)
  \/ ScanCheck("scan1", TRUE)
  \/ \E outcome \in {"queued", "db_failed"} : ScanInsert("scan1", outcome)
  \/ ScanReturn("scan1")
  \/ \E dbOk \in BOOLEAN : UpdateWrite("op1", dbOk)
  \/ \E dbOk \in BOOLEAN : BulkWrite("bulk1", dbOk)
  \/ \E provider \in {"accepted", "rejected"} : DispatchSend("cron", TRUE, provider)
  \/ \E dbOk \in BOOLEAN : DispatchWrite("cron", dbOk)
  \/ DispatchReturn("cron")

SpecApproval == Init /\ [][NextApproval]_vars

\* Dispatcher runs, one operation at a time, with every outcome of the send
\* and of the status write: scans queue the entries and approveAllQueuedEmails
\* approves them.
NextDispatch ==
  \/ /\ AllIdle
     /\ \/ \E sheet \in LifecycleSheets : ScanStart("scan1", PanelSession, TRUE, TRUE, sheet)
        \/ BulkRead("bulk1", PanelSession, TRUE)
        \/ \E dbOk \in BOOLEAN : DispatchFetch("cron", dbOk)
  \/ ScanCheck("scan1", TRUE)
  \/ ScanInsert("scan1", "queued")
  \/ ScanReturn("scan1")
  \/ BulkWrite("bulk1", TRUE)
  \/ \E provider \in ProviderOutcomes : DispatchSend("cron", TRUE, provider)
  \/ DispatchSend("cron", FALSE, "throws")
  \/ \E dbOk \in BOOLEAN : DispatchWrite("cron", dbOk)
  \/ DispatchReturn("cron")

SpecDispatch == Init /\ [][NextDispatch]_vars

\* The rows and thresholds of the scan specification.
EmailC == <<"c","@","x">>
Carol  == <<"C","a","r","o","l">>
\* a role to be trimmed and lower-cased, a count given as text, equal to the
\* default threshold
RowCarol    == <<Str(Carol), Str(EmailC), Str(<<"5">>), Str(<<" ","M","E","M","B","E","R"," ">>)>>
RowNoEmail  == <<Str(Bob), Null, Num(1)>>
RowBadCount == <<Str(Bob), Str(EmailB), Str(<<"n","/","a">>), Str(Member)>>
RowBoolCount == <<Str(Bob), Str(EmailB), Bool(TRUE)>>
RowShort    == <<Str(Bob), Str(EmailB)>>

ScanSheets == {Values(<<RowAlice, RowCarol>>), Values(<<RowCarol, RowBob>>),
               Values(<<RowNoEmail, RowAlice>>), Values(<<RowBadCount, RowBoolCount, RowShort>>)}

ScanRoleNames == {<<" ","M","e","m","b","e","r">>, <<"E","X","E","C","U","T","I","V","E">>}
ScanThresholds == {Number(3), Number(6)}

\* Scans and threshold changes, one at a time, with the approval of what was
\* queued and a dispatch that fails, after which a recipient can be queued
\* again.
NextScan ==
  \/ /\ AllIdle
     /\ \/ \E sheet \in ScanSheets : ScanStart("scan1", PanelSession, TRUE, TRUE, sheet)
        \/ \E roleName \in ScanRoleNames, threshold \in ScanThresholds, dbOk \in BOOLEAN :
              UpsertRoleThreshold(PanelSession, roleName, threshold, dbOk)
        \/ \E threshold \in {NaN, Number(0 - 1)} :
              UpsertRoleThreshold(PanelSession, <<"M","e","m","b","e","r">>, threshold, TRUE)
        \/ UpsertRoleThreshold(PanelSession, <<" ">>, Number(3), TRUE)
        \/ \E session \in BadSessions :
              UpsertRoleThreshold(session, <<"M","e","m","b","e","r">>, Number(3), TRUE)
        \/ BulkRead("bulk1", PanelSession, TRUE)
        \/ DispatchFetch("cron", TRUE)
  \/ \E dbOk \in BOOLEAN : ScanCheck("scan1", dbOk)
  \/ \E outcome \in ScanOutcomes : ScanInsert("scan1", outcome)
  \/ ScanReturn("scan1")
  \/ BulkWrite("bulk1", TRUE)
  \/ DispatchSend("cron", TRUE, "rejected")
  \/ DispatchWrite("cron", TRUE)
  \/ DispatchReturn("cron")

SpecScan == Init /\ [][NextScan]_vars

\* The times of the open events.
OpenedTimestamps == {1, 2}

\* no operation other than a webhook request is in progress
NoActionInProgress ==
  /\ \A s \in Scanners : scan[s].pc = "idle"
  /\ \A o \in Operators : op[o].pc = "idle"
  /\ \A b \in Bulkers : bulk[b].pc = "idle"
  /\ \A d \in Dispatchers : disp[d].pc = "idle"

\* Webhook requests handled concurrently with each other, between operations
\* executed one at a time that queue, approve and send the entries.
NextWebhook ==
  \/ /\ AllIdle
     /\ \/ ScanStart("scan1", PanelSession, TRUE, TRUE, Values(<<RowAlice, RowBob>>))
        \/ BulkRead("bulk1", PanelSession, TRUE)
        \/ DispatchFetch("cron", TRUE)
  \/ ScanCheck("scan1", TRUE)
  \/ ScanInsert("scan1", "queued")
  \/ ScanReturn("scan1")
  \/ BulkWrite("bulk1", TRUE)
  \/ \E provider \in {"accepted", "rejected"} : DispatchSend("cron", TRUE, provider)
  \/ DispatchWrite("cron", TRUE)
  \/ DispatchReturn("cron")
  \/ /\ NoActionInProgress
     /\ \E h \in Hooks :
          \/ \E emailId \in MessageIds \cup {<<MaxSends + 1>>},
                openedTimestamp \in OpenedTimestamps, dbOk \in BOOLEAN :
                WebhookRead(h, "email.opened", emailId, openedTimestamp, dbOk)
          \/ WebhookRead(h, "email.opened", <<>>, 1, TRUE)
          \/ \E emailId \in {<<>>, <<1>>} : WebhookRead(h, "email.delivered", emailId, 1, TRUE)
  \/ \E h \in Hooks, dbOk \in BOOLEAN : WebhookWrite(h, dbOk)

SpecWebhook == Init /\ [][NextWebhook]_vars

\* Every server action called with every kind of session, one at a time;
\* processEmailQueue is called as a server action ("manual").
NextAuth ==
  \/ /\ AllIdle
     /\ \/ \E session \in Sessions :
              ScanStart("scan1", session, TRUE, TRUE, Values(<<RowAlice, RowBob>>))
        \/ \E session \in Sessions, emailId \in 1..MaxQueue, newStatus \in {"APPROVED", "CANCELED"} :
              UpdateRead("op1", session, emailId, newStatus, TRUE)
        \/ \E session \in Sessions : BulkRead("bulk1", session, TRUE)
        \/ DispatchFetch("manual", TRUE)
        \/ \E session \in Sessions :
              UpsertRoleThreshold(session, Member, Number(3), TRUE)
        \/ \E session \in Sessions : GetEmailQueue(session, TRUE)
        \/ \E session \in Sessions, emailId \in 1..MaxQueue :
              GetEmailBodyHtml(session, emailId, TRUE)
  \/ ScanCheck("scan1", TRUE)
  \/ ScanInsert("scan1", "queued")
  \/ ScanReturn("scan1")
  \/ UpdateWrite("op1", TRUE)
  \/ BulkWrite("bulk1", TRUE)
  \/ \E provider \in {"accepted", "rejected"} : DispatchSend("manual", TRUE, provider)
  \/ DispatchWrite("manual", TRUE)
  \/ DispatchReturn("manual")

SpecAuth == Init /\ [][NextAuth]_vars

\* The values of CRON_SECRET and of the Authorization header of a request.
CronSecrets == {Undefined, Str(""), Str("s3cret")}
AuthorizationHeaders ==
  {Null, Str(<<"Bearer ", "s3cret">>), Str(<<"Bearer ", "wrong">>),
   Str(<<"Bearer ", "undefined">>), Str(<<"Bearer ", "">>), Str(<<"s3cret">>)}

\* Requests to the two cron routes, in production and in development, with
\* every secret and header, one operation at a time; a PANEL user runs scans
\* and approves what they queue.  A cron request carries no session.
NextCron ==
  \/ /\ AllIdle
     /\ \/ \E production \in BOOLEAN, cronSecret \in CronSecrets,
              authorizationHeader \in AuthorizationHeaders :
              CronCheckActivity("scan1", production, cronSecret, authorizationHeader,
                                NoSession, TRUE, TRUE, Values(<<RowAlice, RowBob>>))
        \/ \E production \in BOOLEAN, cronSecret \in CronSecrets,
              authorizationHeader \in AuthorizationHeaders :
              CronProcessQueue("cron", production, cronSecret, authorizationHeader, TRUE)
        \/ ScanStart("scan1", PanelSession, TRUE, TRUE, Values(<<RowAlice, RowBob>>))
        \/ BulkRead("bulk1", PanelSession, TRUE)
  \/ ScanCheck("scan1", TRUE)
  \/ \E outcome \in {"queued", "db_failed"} : ScanInsert("scan1", outcome)
  \/ ScanReturn("scan1")
  \/ BulkWrite("bulk1", TRUE)
  \/ \E provider \in {"accepted", "rejected"} : DispatchSend("cron", TRUE, provider)
  \/ \E dbOk \in BOOLEAN : DispatchWrite("cron", dbOk)
  \/ DispatchReturn("cron")

SpecCron == Init /\ [][NextCron]_vars

\* Rows with an email that is empty or a number, and with a count that is
\* text starting with a digit.
RowEmptyEmail == <<Str(Bob), Str(<<>>), Num(1), Str(Member)>>
RowNumEmail   == <<Str(Bob), Num(7), Num(1), Str(Member)>>
Row3x         == <<Str(Bob), Str(EmailB), Str(<<"3","x">>), Str(Member)>>

RowSheets == {Values(<<RowNoEmail, RowAlice>>), Values(<<RowBadCount, RowBoolCount, RowShort>>),
              Values(<<RowEmptyEmail, RowNumEmail, RowBob>>), Values(<<Row3x, RowCarol>>)}

\* Scans of sheets with valid and invalid rows, of a sheet that cannot be
\* read and with the range not configured, one at a time, with the threshold
\* of a role set or not.
NextRows ==
  \/ /\ AllIdle
     /\ \/ \E sheet \in RowSheets : ScanStart("scan1", PanelSession, TRUE, TRUE, sheet)
        \/ \E sheet \in {SheetNull, SheetThrows} :
              ScanStart("scan1", PanelSession, TRUE, TRUE, sheet)
        \/ ScanStart("scan1", PanelSession, FALSE, TRUE, Values(<<RowBob>>))
        \/ \E threshold \in ScanThresholds :
              UpsertRoleThreshold(PanelSession, Member, threshold, TRUE)
  \/ ScanCheck("scan1", TRUE)
  \/ \E outcome \in {"queued", "render_threw", "db_failed"} : ScanInsert("scan1", outcome)
  \/ ScanReturn("scan1")

SpecRows == Init /\ [][NextRows]_vars

\* Previews of the entries between the operations that change them: scans,
\* approvals and cancellations, bulk approvals and dispatcher runs executed
\* one at a time, and webhook requests handled concurrently with each other.
NextPreview ==
  \/ /\ AllIdle
     /\ \/ ScanStart("scan1", PanelSession, TRUE, TRUE, Values(<<RowAlice, RowBob>>))
        \/ \E emailId \in 1..MaxQueue, newStatus \in {"APPROVED", "CANCELED"} :
              UpdateRead("op1", PanelSession, emailId, newStatus, TRUE)
        \/ BulkRead("bulk1", PanelSession, TRUE)
        \/ DispatchFetch("cron", TRUE)
        \/ \E emailId \in 1..(MaxQueue + 1) : GetEmailBodyHtml(PanelSession, emailId, TRUE)
        \/ GetEmailBodyHtml(PanelSession, 1, FALSE)
  \/ ScanCheck("scan1", TRUE)
  \/ ScanInsert("scan1", "queued")
  \/ ScanReturn("scan1")
  \/ UpdateWrite("op1", TRUE)
  \/ BulkWrite("bulk1", TRUE)
  \/ \E provider \in {"accepted", "rejected"} : DispatchSend("cron", TRUE, provider)
  \/ DispatchWrite("cron", TRUE)
  \/ DispatchReturn("cron")
  \/ /\ NoActionInProgress
     /\ \E h \in Hooks, emailId \in MessageIds, openedTimestamp \in OpenedTimestamps :
          WebhookRead(h, "email.opened", emailId, openedTimestamp, TRUE)
  \/ \E h \in Hooks : WebhookWrite(h, TRUE)

SpecPreview == Init /\ [][NextPreview]_vars

\* Threshold changes with valid and invalid arguments, and the scans that
\* start after them, one at a time.
NextThreshold ==
  \/ /\ AllIdle
     /\ \/ \E sheet \in ScanSheets : ScanStart("scan1", PanelSession, TRUE, TRUE, sheet)
        \/ \E roleName \in ScanRoleNames, threshold \in ScanThresholds, dbOk \in BOOLEAN :
              UpsertRoleThreshold(PanelSession, roleName, threshold, dbOk)
        \/ \E threshold \in {NaN, Number(0 - 1)} :
              UpsertRoleThreshold(PanelSession, Member, threshold, TRUE)
        \/ UpsertRoleThreshold(PanelSession, <<" ">>, Number(3), TRUE)
  \/ ScanCheck("scan1", TRUE)
  \/ ScanInsert("scan1", "queued")
  \/ ScanReturn("scan1")

SpecThreshold == Init /\ [][NextThreshold]_vars

\* Two checkMemberActivity invocations on the same sheet, their steps
\* interleaved; the two rows of the sheet are of one recipient.
NextScanRace ==
  \/ \E s \in {"scan1", "scan2"} :
        ScanStart(s, PanelSession, TRUE, TRUE, Values(<<RowAlice, RowAliceDup>>))
  \/ \E s \in {"scan1", "scan2"} : ScanCheck(s, TRUE)
  \/ \E s \in {"scan1", "scan2"}, outcome \in {"queued", "db_failed"} : ScanInsert(s, outcome)
  \/ \E s \in {"scan1", "scan2"} : ScanReturn(s)

SpecScanRace == Init /\ [][NextScanRace]_vars

\* The role cells of the template specification: every alias of the switch
\* as listed and padded with spaces, aliases in upper and mixed case, an
\* empty role, a blank one, roles that match no case, and cells that are not
\* strings.
RoleAliases == {CoDirectors, CoDirectorSpace, CoDirector, SeniorExecutives, SeniorExecutive, Executives, Executive, JuniorExecutives, JuniorExecutive, NewRecruits, NewRecruit, GeneralMembers, GeneralMember, Member}

TemplateRoleCells ==
  {Str(a) : a \in RoleAliases}
    \cup {Str(<<" ">> \o a \o <<" ", " ">>) : a \in RoleAliases}
    \cup {Str(<<" ","C","O","-","D","i","r","e","c","t","o","r"," ">>),
          Str(<<"S","e","n","i","o","r"," ","E","x","e","c","u","t","i","v","e","s">>),
          Str(<<"J","U","N","I","O","R"," ","E","X","E","C","U","T","I","V","E">>),
          Str(<<"N","e","w"," ","R","e","c","r","u","i","t">>),
          Str(<<"M","E","M","B","E","R">>),
          Str(<<>>), Str(<<" ">>),
          Str(<<"i","n","t","e","r","n">>),
          Str(<<"c","o","d","i","r","e","c","t","o","r">>),
          Str(<<"s","e","n","i","o","r"," "," ","e","x","e","c","u","t","i","v","e">>),
          Null, Num(7)}

\* One-row sheets: a member below the default threshold with each role
\* cell, and a member whose row has no role column.
TemplateSheets ==
  {Values(<<(<<Str(Alice), Str(EmailA), Num(1), cell>>)>>) : cell \in TemplateRoleCells}
    \cup {Values(<<(<<Str(Bob), Str(EmailB), Str(<<"2">>), cell>>)>>) : cell \in TemplateRoleCells}
    \cup {Values(<<RowBob>>)}

\* Scans of the one-row sheets, one at a time.
NextTemplate ==
  \/ /\ AllIdle
     /\ \E sheet \in TemplateSheets : ScanStart("scan1", PanelSession, TRUE, TRUE, sheet)
  \/ ScanCheck("scan1", TRUE)
  \/ \E outcome \in {"queued", "db_failed"} : ScanInsert("scan1", outcome)
  \/ ScanReturn("scan1")

SpecTemplate == Init /\ [][NextTemplate]_vars

\* The sheets that are scanned twice.
TwiceSheets == {Values(<<RowAlice, RowCarol>>), Values(<<RowCarol, RowBob>>)}

\* The step just taken was the return of a completed checkMemberActivity run
\* of `s`.
ScanCompleted(s) ==
  /\ ret.by = s
  /\ ret.value.success
  /\ ret.obs # <<>>

\* checkMemberActivity run twice in succession: "scan1" is a run, "scan2" is
\* the run that follows it at once on the rows it read when it queued every
\* member it flagged, "scan3" the run that follows it at once on the rows it
\* read when a template load, a render or an insert of it failed.
NextTwice ==
  \/ /\ AllIdle
     /\ \/ \E sheet \in TwiceSheets : ScanStart("scan1", PanelSession, TRUE, TRUE, sheet)
        \/ UpsertRoleThreshold(PanelSession, Member, Number(6), TRUE)
  \/ /\ AllIdle
     /\ ScanCompleted("scan1")
     /\ ret.value.flagged = ret.obs.queued
     /\ ScanStart("scan2", PanelSession, TRUE, TRUE, Values(ret.obs.rawData))
  \/ /\ AllIdle
     /\ ScanCompleted("scan1")
     /\ ret.value.flagged # ret.obs.queued
     /\ ScanStart("scan3", PanelSession, TRUE, TRUE, Values(ret.obs.rawData))
  \/ \E s \in Scanners, dbOk \in BOOLEAN : ScanCheck(s, dbOk)
  \/ \E s \in Scanners, outcome \in ScanOutcomes : ScanInsert(s, outcome)
  \/ \E s \in Scanners : ScanReturn(s)

SpecTwice == Init /\ [][NextTwice]_vars

\* ------------------------------------------------------------- properties
\* The status changes the lifecycle allows.
AllowedEdges == {<<"QUEUED", "APPROVED">>, <<"QUEUED", "CANCELED">>,
                 <<"APPROVED", "SENT">>, <<"APPROVED", "FAILED">>}

\* C1: under any interleaving of the operations, the status of a QueueEntry
\* changes only along QUEUED->APPROVED, QUEUED->CANCELED, APPROVED->SENT or
\* APPROVED->FAILED.
C1_StatusOnlyMovesForward ==
  [][\A i \in DOMAIN emailQueue :
        \/ emailQueue'[i].status = emailQueue[i].status
        \/ <<emailQueue[i].status, emailQueue'[i].status>> \in AllowedEdges]_vars

\* the entries of a recipient that are not FAILED
NonFailedEntries(queue, email) ==
  {i \in DOMAIN queue : queue[i].recipientEmail = email /\ queue[i].status # "FAILED"}

\* a step that inserts a QueueEntry inserts it for a recipient without a
\* non-FAILED entry
InsertOnlyWithoutNonFailed ==
  Len(emailQueue') > Len(emailQueue) =>
     /\ Len(emailQueue') = Len(emailQueue) + 1
     /\ NonFailedEntries(emailQueue, emailQueue'[Len(emailQueue')].recipientEmail) = {}

\* C2: with the operations executed one at a time, checkMemberActivity never
\* inserts a QueueEntry for a recipient that has an entry QUEUED, APPROVED,
\* CANCELED or SENT, and every recipient has at most one entry that is not
\* FAILED.
C2_AtMostOneNonFailedEntry ==
  /\ [](\A i \in DOMAIN emailQueue :
           Cardinality(NonFailedEntries(emailQueue, emailQueue[i].recipientEmail)) <= 1)
  /\ [][InsertOnlyWithoutNonFailed]_vars

\* A scan has gone through two rows of the same recipient, both below the
\* threshold, and queued one entry.
C2_Witness ==
  /\ scan["scan1"].pc = "check"
  /\ scan["scan1"].idx = 3
  /\ scan["scan1"].membersToProcess[1].email = scan["scan1"].membersToProcess[2].email
  /\ scan["scan1"].belowThresholdCount = 2
  /\ scan["scan1"].successfullyQueuedCount = 1
  /\ \E i \in DOMAIN emailQueue : emailQueue[i].status = "FAILED"

\* a step of updateEmailStatus from its start: it returns, or goes on to its
\* write
UpdateReadStep(o) == op[o].pc = "idle" /\ (op'[o].pc = "write" \/ ret'.by = o)

\* C3: updateEmailStatus on an entry that is not QUEUED, on an unknown id or
\* with a target other than APPROVED or CANCELED returns success=false and
\* leaves the EmailQueue, WarningLog and AdminLog rows unchanged: a call goes
\* on to its write only for a known id, a QUEUED entry and a valid target.
C3_RejectedUpdateChangesNothing ==
  [][\A o \in Operators :
        UpdateReadStep(o) =>
           IF op'[o].pc = "write"
             THEN /\ op'[o].emailId \in DOMAIN emailQueue
                  /\ emailQueue[op'[o].emailId].status = "QUEUED"
                  /\ op'[o].newStatus \in {"APPROVED", "CANCELED"}
             ELSE /\ ret'.value.success = FALSE
                  /\ UNCHANGED <<emailQueue, warningLog, adminLog>>]_vars

\* updateEmailStatus has just refused an entry that is no longer QUEUED.
C3_Witness ==
  /\ ret.by \in Operators
  /\ ret.value.success = FALSE
  /\ ret.value.message = "Email is not in QUEUED status. Cannot update."
  /\ \E i \in DOMAIN emailQueue : emailQueue[i].status = "SENT"
  /\ Len(adminLog) = 1

\* C4: with the operations executed one at a time, the write of a successful
\* updateEmailStatus(id, S) sets the status of entry id to S, the status of
\* its WarningLog row to S and appends one AdminLog row, changing no other
\* entry and no other log; a failed write changes nothing.
C4_UpdateIsAtomic ==
  [][\A o \in Operators :
        (op[o].pc = "write" /\ op'[o].pc = "idle") =>
           LET id == op[o].emailId
               S  == op[o].newStatus
           IN  IF ret'.value.success
                 THEN /\ emailQueue[id].status = "QUEUED"
                      /\ emailQueue' = [emailQueue EXCEPT ![id].status = S]
                      /\ warningLog[id].status = "QUEUED"
                      /\ warningLog[id].recipientEmail = emailQueue[id].recipientEmail
                      /\ warningLog[id].templateUsed = emailQueue[id].template
                      /\ warningLog' = [warningLog EXCEPT ![id].status = S]
                      /\ Len(adminLog') = Len(adminLog) + 1
                      /\ SubSeq(adminLog', 1, Len(adminLog)) = adminLog
                      /\ adminLog'[Len(adminLog')].details.emailId = id
                      /\ adminLog'[Len(adminLog')].details.updatedStatus = S
                 ELSE UNCHANGED <<emailQueue, warningLog, adminLog>>]_vars

\* An operator has just canceled an entry: the entry and its log are
\* CANCELED and the action is logged.
C4_Witness ==
  /\ ret.by \in Operators
  /\ ret.value.success
  /\ Len(adminLog) >= 1
  /\ adminLog[Len(adminLog)].action = "canceled_email"
  /\ \E i \in DOMAIN emailQueue :
        /\ adminLog[Len(adminLog)].details.emailId = i
        /\ emailQueue[i].status = "CANCELED"
        /\ warningLog[i].status = "CANCELED"

\* C5: the write of approveAllQueuedEmails moves to APPROVED exactly the
\* entries that are QUEUED when it is applied, changes no entry in another
\* status, and logs an approvedCount equal to the number of entries it moved.
C5_BulkApproveMovesOnlyQueued ==
  [][\A b \in Bulkers :
        (bulk[b].pc = "write" /\ bulk'[b].pc = "idle" /\ ret'.value.success) =>
           /\ \A i \in DOMAIN emailQueue :
                 emailQueue'[i].status =
                    IF emailQueue[i].status = "QUEUED" THEN "APPROVED"
                    ELSE emailQueue[i].status
           /\ adminLog'[Len(adminLog')].details.approvedCount =
                 Cardinality({i \in DOMAIN emailQueue : emailQueue[i].status = "QUEUED"})]_vars

\* the step in which processEmailQueue stores the outcome of a send
DispatchWriteStep(d) == disp[d].pc = "write" /\ disp'[d].pc = "send"

\* C6: for an entry whose status write succeeds: a send that returned a
\* result without error makes the entry SENT with the message id stored and
\* its log SENT with a sent timestamp; a send that returned an error, null
\* or threw makes the entry FAILED without message id and its log FAILED
\* without timestamp.
C6_SendOutcomeIsStored ==
  [][\A d \in Dispatchers :
        (DispatchWriteStep(d) /\ disp'[d].attempts[Len(disp'[d].attempts)].written) =>
           LET id         == disp[d].emailsToProcess[disp[d].idx].id
               sendResult == disp[d].sendResult
           IN  IF sendResult.kind = "response" /\ ~sendResult.error
                 THEN /\ emailQueue'[id].status = "SENT"
                      /\ emailQueue'[id].resendMessageId = sendResult.data
                      /\ emailQueue'[id].resendMessageId # <<>>
                      /\ warningLog'[id].status = "SENT"
                      /\ warningLog'[id].emailSentAt # <<>>
                 ELSE /\ emailQueue'[id].status = "FAILED"
                      /\ emailQueue'[id].resendMessageId = <<>>
                      /\ warningLog'[id].status = "FAILED"
                      /\ warningLog'[id].emailSentAt = <<>>]_vars

\* One entry was sent and another failed, each with its log.
C6_Witness ==
  /\ \E i \in DOMAIN emailQueue :
        /\ emailQueue[i].status = "SENT"
        /\ emailQueue[i].resendMessageId # <<>>
        /\ warningLog[i].status = "SENT"
        /\ warningLog[i].emailSentAt # <<>>
  /\ \E i \in DOMAIN emailQueue :
        /\ emailQueue[i].status = "FAILED"
        /\ outbox[i].calls = 1
        /\ warningLog[i].status = "FAILED"

\* a run of processEmailQueue that fetched entries has just returned
DispatchReturned == ret.by \in Dispatchers /\ ret.obs # <<>>

\* C7 as amended: when a run of processEmailQueue returns, with the
\* operations executed one at a time, each entry it fetched whose status
\* write succeeded is SENT or FAILED, and each entry whose status write
\* failed is still APPROVED.
C7_WrittenEntriesLeaveApproved ==
  DispatchReturned =>
     \A k \in DOMAIN ret.obs.attempts :
        LET attempt == ret.obs.attempts[k]
        IN  IF attempt.written
              THEN emailQueue[attempt.id].status \in {"SENT", "FAILED"}
              ELSE emailQueue[attempt.id].status = "APPROVED"

\* A run has returned after a status write that failed and one that succeeded.
C7_Witness ==
  /\ DispatchReturned
  /\ \E k \in DOMAIN ret.obs.attempts : ~ret.obs.attempts[k].written
  /\ \E k \in DOMAIN ret.obs.attempts : ret.obs.attempts[k].written

\* C7 as stated: when a run of processEmailQueue returns, no entry it
\* fetched is still APPROVED, whatever the outcome of the send and of the
\* status write.
C7_NoFetchedEntryStaysApproved ==
  DispatchReturned =>
     \A id \in ret.obs.fetched : emailQueue[id].status \in {"SENT", "FAILED"}

\* C8: a run of processEmailQueue attempts every entry it fetched exactly
\* once, whatever the outcome of the send and of the status write of the
\* others, and returns success=true.
C8_RunAttemptsEveryEntryOnce ==
  DispatchReturned =>
     /\ ret.value.success
     /\ ret.value.processed = Cardinality(ret.obs.fetched)
     /\ Len(ret.obs.attempts) = Cardinality(ret.obs.fetched)
     /\ \A id \in ret.obs.fetched :
           Cardinality({k \in DOMAIN ret.obs.attempts : ret.obs.attempts[k].id = id}) = 1

\* A run of two entries has returned: the send of the first failed, the
\* second was sent and stored.
C8_Witness ==
  /\ DispatchReturned
  /\ Len(ret.obs.attempts) = 2
  /\ ret.obs.attempts[1].sendResult.kind = "null"
  /\ ret.obs.attempts[2].finalStatus = "SENT"
  /\ ret.obs.attempts[2].written

\* the threshold the specification gives a role: the RoleThreshold stored
\* for the trimmed, lower-cased role name, or 5
StoredThreshold(role) ==
  IF role.t = "string" /\ \E rt \in roleThreshold : rt.roleName = ToLowerCase(Trim(role.s))
    THEN (CHOOSE rt \in roleThreshold : rt.roleName = ToLowerCase(Trim(role.s))).threshold
    ELSE 5

\* a step that inserts rows inserts one QueueEntry and one WarningLog row
\* for the member of the scan, both QUEUED, of the same recipient and
\* template, the log with the effective threshold
InsertsBothRows ==
  (Len(emailQueue') # Len(emailQueue) \/ Len(warningLog') # Len(warningLog)) =>
     \E s \in Scanners :
        /\ scan[s].pc = "insert"
        /\ LET member == scan[s].membersToProcess[scan[s].idx]
               n      == Len(emailQueue) + 1
           IN  /\ Len(emailQueue') = n
               /\ Len(warningLog') = n
               /\ SubSeq(emailQueue', 1, n - 1) = emailQueue
               /\ SubSeq(warningLog', 1, n - 1) = warningLog
               /\ emailQueue'[n].status = "QUEUED"
               /\ warningLog'[n].status = "QUEUED"
               /\ emailQueue'[n].recipientEmail = member.email
               /\ warningLog'[n].recipientEmail = member.email
               /\ warningLog'[n].templateUsed = emailQueue'[n].template
               /\ warningLog'[n].threshold = StoredThreshold(member.role)

\* C9: the QueueEntry and the WarningLog row of a queued member are inserted
\* both or neither, QUEUED, with the same recipient and template and the
\* effective threshold; the two tables always hold the same number of rows.
C9_QueueAndLogInsertedTogether ==
  /\ [](Len(emailQueue) = Len(warningLog))
  /\ [][InsertsBothRows]_vars

\* A member was queued under a stored threshold, after an insert that failed.
C9_Witness ==
  /\ scan["scan1"].pc = "check"
  /\ scan["scan1"].errorCount >= 1
  /\ \E i \in DOMAIN warningLog :
        /\ warningLog[i].threshold = 6
        /\ warningLog[i].status = "QUEUED"
        /\ emailQueue[i].status = "QUEUED"

\* the step of a scan that tests a member against the threshold
ScanCheckStep(s) ==
  /\ scan[s].pc = "check"
  /\ scan[s].idx <= Len(scan[s].membersToProcess)
  /\ scan'[s] # scan[s]

\* the member was not treated as below the threshold: the loop went on to the
\* next member without counting it
NotFlagged(s) ==
  /\ scan'[s].pc = "check"
  /\ scan'[s].idx = scan[s].idx + 1
  /\ scan'[s].belowThresholdCount = scan[s].belowThresholdCount

\* C10: a valid row is treated as below threshold if and only if its
\* activityCount is less than the threshold stored for its trimmed,
\* lower-cased role, or than 5 when there is none; a count equal to the
\* threshold is not below it.
C10_BelowThresholdIffLess ==
  [][\A s \in Scanners :
        ScanCheckStep(s) =>
           LET member == scan[s].membersToProcess[scan[s].idx]
           IN  (member.activityCount < StoredThreshold(member.role)) <=> ~NotFlagged(s)]_vars

\* A scan has passed a member whose count equals the threshold stored for
\* its role and counted a member below the threshold stored for its role,
\* written with spaces and capitals.
C10_Witness ==
  /\ scan["scan1"].pc = "insert"
  /\ scan["scan1"].idx = 2
  /\ scan["scan1"].belowThresholdCount = 1
  /\ LET member == scan["scan1"].membersToProcess[1]
     IN  /\ member.activityCount = 3
         /\ StoredThreshold(member.role) = 3
  /\ LET member == scan["scan1"].membersToProcess[2]
     IN  /\ member.role = Str(<<" ","M","E","M","B","E","R"," ">>)
         /\ member.activityCount = 5
         /\ StoredThreshold(member.role) = 6

\* the number of rows of rawData that are valid and whose count is below the
\* threshold stored for their role
BelowThresholdRows(rawData) ==
  LET members == ParseRows(rawData, 0).members
  IN  Cardinality({k \in DOMAIN members :
                     members[k].activityCount < StoredThreshold(members[k].role)})

C12_RequeuedIffOnlyFailedEntries ==
  [][\A s \in Scanners :
        LET member == scan[s].membersToProcess[scan[s].idx]
        IN  /\ (ScanCheckStep(s) /\ ~NotFlagged(s) /\ scan'[s].pc # "idle") =>
                  (scan'[s].pc = "insert" <=> NonFailedEntries(emailQueue, member.email) = {})
            /\ (scan[s].pc = "insert" /\ emailQueue' # emailQueue) =>
                  /\ NonFailedEntries(emailQueue, member.email) = {}
                  /\ emailQueue' = Append(emailQueue, emailQueue'[Len(emailQueue')])
                  /\ emailQueue'[Len(emailQueue')].recipientEmail = member.email
                  /\ emailQueue'[Len(emailQueue')].status = "QUEUED"]_vars

\* A recipient whose first entry FAILED was queued again by a later scan, the
\* second entry was canceled, and a scan after that has found the recipient
\* below the threshold and skipped it.
C12_Witness ==
  /\ Len(emailQueue) = 2
  /\ emailQueue[1].recipientEmail = emailQueue[2].recipientEmail
  /\ emailQueue[1].status = "FAILED"
  /\ emailQueue[2].status = "CANCELED"
  /\ scan["scan1"].pc = "check"
  /\ scan["scan1"].idx = 2
  /\ scan["scan1"].membersToProcess[1].email = emailQueue[1].recipientEmail
  /\ scan["scan1"].belowThresholdCount = 1
  /\ scan["scan1"].flaggedCount = 0

\* C13: the webhook sets openedAt only on an entry whose status is SENT and
\* whose openedAt is unset, so at most once per entry, and an open event for
\* an entry that is already opened changes nothing, also when two open
\* events of one message id are handled concurrently.
C13_OpenedAtSetOnceOnSentEntry ==
  [][\A i \in DOMAIN emailQueue :
        emailQueue'[i].openedAt # emailQueue[i].openedAt =>
           /\ emailQueue[i].status = "SENT"
           /\ emailQueue[i].openedAt = <<>>]_vars

\* the step of a webhook request up to its lookup
WebhookReadStep(h) ==
  /\ hook[h].pc = "idle"
  /\ ret'.by = h \/ hook'[h].pc = "write"

\* C14: a webhook event of a type other than 'email.opened', or an
\* 'email.opened' event whose message id no entry has, is answered with
\* status 200 and changes no EmailQueue row and no WarningLog row; the
\* handler goes on to its write only for a message id that an entry has.
C14_UnhandledEventsChangeNothing ==
  [][\A h \in Hooks :
        /\ (WebhookReadStep(h) /\ ret'.by = h /\ ret'.obs.dbOk) =>
              LET request == ret'.obs
                  unhandled ==
                    \/ request.eventType # "email.opened"
                    \/ /\ request.emailId # <<>>
                       /\ \A i \in DOMAIN emailQueue :
                             emailQueue[i].resendMessageId # request.emailId
              IN  unhandled => /\ ret'.value.status = 200
                               /\ UNCHANGED <<emailQueue, warningLog>>
        /\ (WebhookReadStep(h) /\ hook'[h].pc = "write") =>
              /\ \E i \in DOMAIN emailQueue :
                    emailQueue[i].resendMessageId = hook'[h].resendMessageId
              /\ UNCHANGED <<emailQueue, warningLog>>]_vars

\* An entry was sent and then opened, and after that an open event of a
\* message id that no entry has was answered with status 200.
C14_Witness ==
  /\ \E i \in DOMAIN emailQueue : emailQueue[i].openedAt # <<>>
  /\ ret.by = "hook1"
  /\ ret.obs # <<>>
  /\ ret.obs.emailId = <<MaxSends + 1>>
  /\ ret.obs.eventType = "email.opened"
  /\ ret.obs.dbOk
  /\ ret.value.status = 200

\* the sessions of a caller that is not a PANEL user
UnprivilegedSessions == {NoSession, MemberSession}

\* the messages of the authorization checks
UnauthorizedMessages ==
  {"Unauthorized: You do not have permission to perform this action.",
   "Unauthorized or missing user data for logging.",
   "Unauthorized: You do not have permission to view the email queue.",
   "Unauthorized: You do not have permission to preview emails."}

\* a step that is the call of a server action other than processEmailQueue
\* with the given session
SessionCheckedCall(session) ==
  \/ \E s \in Scanners :
        ScanStart(s, session, TRUE, TRUE, Values(<<RowAlice, RowBob>>))
  \/ \E o \in Operators, emailId \in 1..MaxQueue, newStatus \in {"APPROVED", "CANCELED"} :
        UpdateRead(o, session, emailId, newStatus, TRUE)
  \/ \E b \in Bulkers : BulkRead(b, session, TRUE)
  \/ UpsertRoleThreshold(session, Member, Number(3), TRUE)
  \/ GetEmailQueue(session, TRUE)
  \/ \E emailId \in 1..MaxQueue : GetEmailBodyHtml(session, emailId, TRUE)

\* a step that is the call of processEmailQueue, which takes no argument and
\* does not look at the session of its caller
ProcessEmailQueueCall == \E d \in Dispatchers : DispatchFetch(d, TRUE)

\* the call is answered as unauthorized, and no row was read into the
\* operation, none was written and no email was sent
AnsweredUnauthorized ==
  /\ ~ret'.value.success
  /\ ret'.value.message \in UnauthorizedMessages
  /\ UNCHANGED <<dbVars, outbox, procVars>>

\* C15: checkMemberActivity, processEmailQueue, updateEmailStatus,
\* approveAllQueuedEmails, upsertRoleThreshold, getEmailQueue and
\* getEmailBodyHtml, called without a session or with a session whose role
\* is not PANEL, answer that the caller is unauthorized, read and write no
\* row and send no email.
C15_UnprivilegedCallsAreRejected ==
  [][\A session \in UnprivilegedSessions :
        (SessionCheckedCall(session) \/ ProcessEmailQueueCall) => AnsweredUnauthorized]_vars

\* a step that is a request to one of the two cron routes, with no session
CronRequest(production, cronSecret, authorizationHeader) ==
  \/ \E s \in Scanners :
        CronCheckActivity(s, production, cronSecret, authorizationHeader,
                          NoSession, TRUE, TRUE, Values(<<RowAlice, RowBob>>))
  \/ \E d \in Dispatchers :
        CronProcessQueue(d, production, cronSecret, authorizationHeader, TRUE)

\* CRON_SECRET is set and the header is exactly 'Bearer <CRON_SECRET>'
ExactBearer(cronSecret, authorizationHeader) ==
  /\ cronSecret \notin {Undefined, Str("")}
  /\ authorizationHeader = Str(<<"Bearer ", cronSecret.s>>)

\* C16: in production, a request to either cron route is answered with
\* status 500 when CRON_SECRET is unset and with status 401 when its
\* Authorization header is not exactly 'Bearer <CRON_SECRET>', and neither
\* checkMemberActivity nor processEmailQueue is called: no row is read or
\* written and no email is sent.
C16_CronGateRejects ==
  [][\A cronSecret \in CronSecrets, authorizationHeader \in AuthorizationHeaders :
        (/\ ~ExactBearer(cronSecret, authorizationHeader)
         /\ CronRequest(TRUE, cronSecret, authorizationHeader)) =>
           /\ "status" \in DOMAIN ret'.value
           /\ ret'.value.status = IF cronSecret \in {Undefined, Str("")} THEN 500 ELSE 401
           /\ ~ret'.value.success
           /\ UNCHANGED <<dbVars, outbox, procVars>>]_vars

\* A request to process-queue was answered with status 401 while an
\* APPROVED entry was waiting to be sent.
C16_Witness ==
  /\ ret.by = "cron"
  /\ ret.value = JsonResponse(401, "Unauthorized.")
  /\ \E i \in DOMAIN emailQueue : emailQueue[i].status = "APPROVED"
  /\ \A i \in DOMAIN outbox : outbox[i].calls = 0

\* C17: a request to check-activity that passes the security check and
\* carries no session runs checkMemberActivity on the sheet: the scan of the
\* rows starts instead of the request being answered with a failure.
C17_CronRunsTheScan ==
  [][\A production \in BOOLEAN, cronSecret \in CronSecrets,
        authorizationHeader \in AuthorizationHeaders :
        (/\ ~production \/ ExactBearer(cronSecret, authorizationHeader)
         /\ CronCheckActivity("scan1", production, cronSecret, authorizationHeader,
                               NoSession, TRUE, TRUE, Values(<<RowAlice, RowBob>>))) =>
           /\ scan'["scan1"].pc = "check"
           /\ ret' = NoResponse]_vars

\* the WarningLog rows of the recipient and template of an entry
LogsOf(entry) ==
  {j \in DOMAIN warningLog :
     /\ warningLog[j].recipientEmail = entry.recipientEmail
     /\ warningLog[j].templateUsed = entry.template}

\* the entries of the recipient, template and status of an entry
EntriesLike(entry) ==
  {i \in DOMAIN emailQueue :
     /\ emailQueue[i].recipientEmail = entry.recipientEmail
     /\ emailQueue[i].template = entry.template
     /\ emailQueue[i].status = entry.status}

\* C18 as amended: with the operations executed one at a time, the
\* WarningLog row created with an entry has the entry's recipient, template
\* and status, there are as many rows of a recipient, template and status as
\* entries of them, and no row of the recipient and template of a QUEUED or
\* CANCELED entry shows SENT or APPROVED.
C18_LogStatusFollowsEntry ==
  /\ Len(warningLog) = Len(emailQueue)
  /\ \A i \in DOMAIN emailQueue :
        /\ warningLog[i].recipientEmail = emailQueue[i].recipientEmail
        /\ warningLog[i].templateUsed = emailQueue[i].template
        /\ warningLog[i].status = emailQueue[i].status
        /\ Cardinality({j \in LogsOf(emailQueue[i]) :
                          warningLog[j].status = emailQueue[i].status})
             = Cardinality(EntriesLike(emailQueue[i]))
        /\ emailQueue[i].status \in {"QUEUED", "CANCELED"} =>
              \A j \in LogsOf(emailQueue[i]) : warningLog[j].status \notin {"SENT", "APPROVED"}

\* A recipient has a FAILED entry and a later entry of the same template
\* that was approved and sent, and no operation is in progress.
C18_Witness ==
  /\ Len(emailQueue) = 2
  /\ emailQueue[1].recipientEmail = emailQueue[2].recipientEmail
  /\ emailQueue[1].template = emailQueue[2].template
  /\ emailQueue[1].status = "FAILED"
  /\ emailQueue[2].status = "SENT"
  /\ warningLog[2].status = "SENT"
  /\ AllIdle

\* C18 as stated: every entry has exactly one WarningLog row of its
\* recipient and template whose status is the entry's status, and no row of
\* the recipient and template of a QUEUED or CANCELED entry shows SENT or
\* APPROVED.
C18_ExactlyOneLogWithEntryStatus ==
  \A i \in DOMAIN emailQueue :
     /\ Cardinality({j \in LogsOf(emailQueue[i]) :
                       warningLog[j].status = emailQueue[i].status}) = 1
     /\ emailQueue[i].status \in {"QUEUED", "CANCELED"} =>
           \A j \in LogsOf(emailQueue[i]) : warningLog[j].status \notin {"SENT", "APPROVED"}

\* text that is a number: digits, after an optional sign, between optional
\* white space
NumericText(str) ==
  LET s    == Trim(str)
      body == IF s # <<>> /\ Head(s) \in {"-", "+"} THEN Tail(s) ELSE s
  IN  body # <<>> /\ \A k \in DOMAIN body : IsDigit(body[k])

\* the email of the row is missing, empty or not a string
EmailInvalid(row) == Cell(row, 1).t # "string" \/ Cell(row, 1).s = <<>>

\* the activity count of the row is missing or not numeric
CountInvalid(row) ==
  LET value == Cell(row, 2)
  IN  CASE value.t \in {"undefined", "null"} -> TRUE
        [] value.t = "number" -> FALSE
        [] value.t = "string" -> ~NumericText(value.s)
        [] OTHER -> TRUE

\* in the scan in progress, the row has one entry of errorsList, with its
\* index and its cells, and is not among the members to process
RowReportedOnce(s, k) ==
  LET l == scan[s]
  IN  /\ Cardinality({e \in DOMAIN l.errorsList : l.errorsList[e].rowIndex = k + 1}) = 1
      /\ \A e \in DOMAIN l.errorsList :
            l.errorsList[e].rowIndex = k + 1 => l.errorsList[e].rowData = l.rawData[k]
      /\ \A m \in DOMAIN l.membersToProcess : l.membersToProcess[m].rowIndex # k + 1

\* in the scan in progress, the row is among the members to process, once
RowEvaluated(s, k) ==
  Cardinality({m \in DOMAIN scan[s].membersToProcess :
                 scan[s].membersToProcess[m].rowIndex = k + 1}) = 1

\* C19: in a scan, a row whose email is missing, empty or not a string, or
\* whose activity count is missing or not numeric, has exactly one entry of
\* errorsList with its row index and its cells and is not processed, so no
\* row is inserted for it; every other row is processed; and a member
\* without a role is tested against the default threshold.
C19_InvalidRowsAreReported ==
  /\ [](\A s \in Scanners :
          scan[s].pc # "idle" =>
             \A k \in DOMAIN scan[s].rawData :
                IF EmailInvalid(scan[s].rawData[k]) \/ CountInvalid(scan[s].rawData[k])
                  THEN RowReportedOnce(s, k)
                  ELSE RowEvaluated(s, k))
  /\ [][\A s \in Scanners :
          ScanCheckStep(s) =>
             LET member == scan[s].membersToProcess[scan[s].idx]
             IN  member.role.t # "string" =>
                   (member.activityCount < DEFAULT_ACTIVITY_THRESHOLD <=> ~NotFlagged(s))]_vars

\* a step that is a call of checkMemberActivity by a PANEL user in which the
\* sheet cannot be read (getSheetData gives null or throws) or the range is
\* not configured
ScanWithoutSheet(s) ==
  \/ \E sheet \in {SheetNull, SheetThrows} : ScanStart(s, PanelSession, TRUE, TRUE, sheet)
  \/ \E sheet \in RowSheets \cup {Values(<<RowBob>>), SheetNull, SheetThrows} :
        ScanStart(s, PanelSession, FALSE, TRUE, sheet)

\* C20: when the sheet cannot be read or the range is not configured,
\* checkMemberActivity returns success = false at once: it inserts no
\* EmailQueue row and no WarningLog row and publishes no event.
C20_NoSheetNoScan ==
  [][\A s \in Scanners :
        ScanWithoutSheet(s) =>
           /\ ret'.by = s
           /\ ~ret'.value.success
           /\ ret'.obs = <<>>
           /\ scan'[s].pc = "idle"
           /\ UNCHANGED <<emailQueue, warningLog>>]_vars

\* A scan has been answered that the sheet could not be read, after an
\* earlier scan had queued an entry.
C20_Witness ==
  /\ ret.by = "scan1"
  /\ ret.value.message = "Failed to fetch data from Google Sheet."
  /\ Len(emailQueue) = 1
  /\ AllIdle

\* the body rendered for the member recorded in a WarningLog row
BodyOfLog(log) ==
  [template      |-> log.templateUsed,
   name          |-> DisplayName(log.recipientName),
   activityCount |-> NumToString(log.activityCount),
   threshold     |-> NumToString(log.threshold)]

\* C21: no step changes the recipient, subject, body or template of an
\* existing entry, and getEmailBodyHtml(id) returns the body rendered when
\* the entry was created (the rendering of the member recorded in the
\* WarningLog row created with it), whatever the status of the entry.
C21_EntryContentIsImmutable ==
  [][/\ \A i \in DOMAIN emailQueue :
          /\ i \in DOMAIN emailQueue'
          /\ emailQueue'[i].recipientEmail = emailQueue[i].recipientEmail
          /\ emailQueue'[i].subject = emailQueue[i].subject
          /\ emailQueue'[i].bodyHtml = emailQueue[i].bodyHtml
          /\ emailQueue'[i].template = emailQueue[i].template
     /\ \A emailId \in DOMAIN emailQueue :
          GetEmailBodyHtml(PanelSession, emailId, TRUE) =>
             /\ ret'.value.success
             /\ ret'.value.htmlContent = BodyOfLog(warningLog[emailId])]_vars

\* The body of an entry that was sent and opened has been returned.
C21_Witness ==
  /\ ret.by = "getEmailBodyHtml"
  /\ ret.value.success
  /\ \E i \in DOMAIN emailQueue :
        /\ emailQueue[i].status = "SENT"
        /\ emailQueue[i].openedAt # <<>>
        /\ ret.value.htmlContent = emailQueue[i].bodyHtml
  /\ \E i \in DOMAIN emailQueue : emailQueue[i].status = "CANCELED"

\* the role names and thresholds given to upsertRoleThreshold
UpsertRoleNames == ScanRoleNames \cup {Member, <<" ">>}
UpsertThresholds == ScanThresholds \cup {NaN, Number(0 - 1)}

\* the rows of the role name in a table of role thresholds
RowsOfRole(table, name) == {rt \in table : rt.roleName = name}

\* C22: upsertRoleThreshold(role, t) by a PANEL user, with a non-empty role
\* and t >= 0, leaves exactly one RoleThreshold row of the trimmed,
\* lower-cased role name, holding t, changes no other row and appends one
\* AdminLog row with the previous threshold; with a role that is empty or
\* white space, or with t negative or NaN, it changes no RoleThreshold row
\* and appends no AdminLog row; and a scan starts with the thresholds stored
\* when it starts.
C22_UpsertStoresOneThreshold ==
  [][/\ \A roleName \in UpsertRoleNames, threshold \in UpsertThresholds :
          (ret'.by = "upsert"
             /\ UpsertRoleThreshold(PanelSession, roleName, threshold, TRUE)) =>
             LET name == ToLowerCase(Trim(roleName))
             IN  IF name # <<>> /\ ~threshold.isNaN /\ threshold.n >= 0
                   THEN /\ RowsOfRole(roleThreshold', name)
                             = {[roleName |-> name, threshold |-> threshold.n]}
                        /\ \A rt \in roleThreshold \cup roleThreshold' :
                              rt.roleName # name => rt \in roleThreshold \cap roleThreshold'
                        /\ Len(adminLog') = Len(adminLog) + 1
                        /\ SubSeq(adminLog', 1, Len(adminLog)) = adminLog
                        /\ LET details == adminLog'[Len(adminLog')].details
                           IN  /\ details.roleName = name
                               /\ details.newThreshold = threshold.n
                               /\ details.previousThreshold
                                    = {rt.threshold : rt \in RowsOfRole(roleThreshold, name)}
                        /\ ret'.value.success
                   ELSE /\ UNCHANGED <<roleThreshold, adminLog>>
                        /\ ~ret'.value.success
     /\ \A s \in Scanners :
          (scan[s].pc = "idle" /\ scan'[s].pc = "check") =>
             \A rt \in roleThreshold :
                /\ rt.roleName \in DOMAIN scan'[s].roleThresholds
                /\ scan'[s].roleThresholds[rt.roleName] = rt.threshold]_vars

\* The threshold of a role was set to 3 and then to 6, and a scan that
\* started afterwards holds 6 for the role.
C22_Witness ==
  /\ Len(adminLog) = 2
  /\ adminLog[2].action = "upsert_role_threshold"
  /\ adminLog[2].details.previousThreshold = {3}
  /\ adminLog[2].details.newThreshold = 6
  /\ roleThreshold = {[roleName |-> adminLog[2].details.roleName, threshold |-> 6]}
  /\ scan["scan1"].pc = "check"
  /\ scan["scan1"].roleThresholds[adminLog[2].details.roleName] = 6

\* C23: with two checkMemberActivity invocations interleaved on a sheet
\* whose rows are of one recipient, each invocation inserts at most one
\* entry (it sees the entry it inserted), every entry is inserted QUEUED
\* with a QUEUED WarningLog row of its recipient, and nothing prevents both
\* invocations from inserting: the state of C23_Witness, with two QUEUED
\* entries and two QUEUED rows of the recipient, is reachable.
C23_EachScanInsertsOncePerRecipient ==
  /\ \A s \in Scanners : scan[s].pc # "idle" => scan[s].successfullyQueuedCount <= 1
  /\ Len(warningLog) = Len(emailQueue)
  /\ \A i \in DOMAIN emailQueue :
        /\ emailQueue[i].status = "QUEUED"
        /\ warningLog[i].status = "QUEUED"
        /\ warningLog[i].recipientEmail = emailQueue[i].recipientEmail

\* Both invocations found no entry of the recipient before either inserted,
\* and both have inserted: there are two QUEUED entries and two QUEUED
\* WarningLog rows of the recipient.
C23_Witness ==
  /\ Len(emailQueue) = 2
  /\ emailQueue[1].recipientEmail = emailQueue[2].recipientEmail
  /\ emailQueue[1].status = "QUEUED" /\ emailQueue[2].status = "QUEUED"
  /\ warningLog[1].recipientEmail = warningLog[2].recipientEmail
  /\ warningLog[1].status = "QUEUED" /\ warningLog[2].status = "QUEUED"
  /\ \A s \in {"scan1", "scan2"} :
        /\ scan[s].pc = "check"
        /\ scan[s].idx = 2
        /\ scan[s].successfullyQueuedCount = 1

\* the attempts of a returned run that are counted as sent: the provider
\* accepted the email and the status write committed
SentAttempts == {k \in DOMAIN ret.obs.attempts : SendSucceeded(ret.obs.attempts[k].sendResult) /\ ret.obs.attempts[k].written}

\* C24: in the result of every run of processEmailQueue each fetched entry
\* is counted once: sent + failed = processed, sent is the number of entries
\* whose send succeeded and whose status write committed, and every other
\* entry, one whose status write failed after a successful send included,
\* is counted in failed.
C24_EveryEntryCountedOnce ==
  DispatchReturned =>
     /\ ret.value.processed = Cardinality(ret.obs.fetched)
     /\ ret.value.sent + ret.value.failed = ret.value.processed
     /\ ret.value.sent = Cardinality(SentAttempts)
     /\ ret.value.failed = Len(ret.obs.attempts) - Cardinality(SentAttempts)

\* A run of two entries has returned: both were accepted by the provider,
\* the status write of the first failed, and the result counts one sent and
\* one failed.
C24_Witness ==
  /\ DispatchReturned
  /\ Len(ret.obs.attempts) = 2
  /\ SendSucceeded(ret.obs.attempts[1].sendResult) /\ ~ret.obs.attempts[1].written
  /\ SendSucceeded(ret.obs.attempts[2].sendResult) /\ ret.obs.attempts[2].written
  /\ ret.value.sent = 1
  /\ ret.value.failed = 1

\* the roles of the specification and the aliases it lists for each
TemplateOfRoles ==
  {[identifier |-> "low_activity_co_director", aliases |-> {CoDirectors, CoDirectorSpace, CoDirector}],
   [identifier |-> "low_activity_senior_executive", aliases |-> {SeniorExecutives, SeniorExecutive}],
   [identifier |-> "low_activity_executive", aliases |-> {Executives, Executive}],
   [identifier |-> "low_activity_junior_executive", aliases |-> {JuniorExecutives, JuniorExecutive}],
   [identifier |-> "low_activity_new_recruit", aliases |-> {NewRecruits, NewRecruit}],
   [identifier |-> "low_activity_general_member", aliases |-> {GeneralMembers, GeneralMember, Member}]}

\* the template the specification gives the role cell of a row
ExpectedTemplate(roleCell) ==
  LET normalizedRole == IF roleCell.t = "string" THEN ToLowerCase(Trim(roleCell.s)) ELSE <<>>
  IN  IF \E r \in TemplateOfRoles : normalizedRole \in r.aliases
        THEN (CHOOSE r \in TemplateOfRoles : normalizedRole \in r.aliases).identifier
        ELSE "low_activity_general_member"

\* C25: the step of a scan that inserts a QueueEntry and its WarningLog row
\* stores on both the template of the trimmed, lower-cased role cell of the
\* member's row: the template of the role that lists it as an alias, and the
\* general-member template when the cell is missing, empty, not a string or
\* matches no alias.
C25_TemplateFollowsNormalizedRole ==
  [][\A s \in Scanners :
       (scan[s].pc = "insert" /\ Len(emailQueue') = Len(emailQueue) + 1) =>
          LET member   == scan[s].membersToProcess[scan[s].idx]
              roleCell == Cell(scan[s].rawData[member.rowIndex - 1], COLUMN_INDICES.ROLE)
          IN  /\ emailQueue'[Len(emailQueue')].template = ExpectedTemplate(roleCell)
              /\ warningLog'[Len(warningLog')].templateUsed = ExpectedTemplate(roleCell)]_vars

\* Two entries are queued: one of a role written in upper case with spaces
\* around it, with the co-director template, and one of a role that matches
\* no alias, with the general-member template.
C25_Witness ==
  /\ Len(emailQueue) = 2
  /\ emailQueue[1].template = "low_activity_co_director"
  /\ warningLog[1].templateUsed = "low_activity_co_director"
  /\ emailQueue[2].template = "low_activity_general_member"
  /\ warningLog[2].templateUsed = "low_activity_general_member"
  /\ scan["scan1"].pc = "check"
  /\ Cell(scan["scan1"].rawData[1], COLUMN_INDICES.ROLE) = Str(<<"i","n","t","e","r","n">>)

\* C26: across the runs of processEmailQueue, runs that follow a run whose
\* status write failed included, the email provider is called at most once
\* for each QueueEntry.
C26_ProviderCalledOncePerEntry ==
  \A id \in 1..MaxQueue : outbox[id].calls <= 1

\* C27: under any interleaving of two operators' updateEmailStatus calls,
\* approveAllQueuedEmails and processEmailQueue, an entry whose status is
\* CANCELED has not been handed to the email provider, and no step hands a
\* CANCELED entry to it.
C27_CanceledEntryIsNeverDelivered ==
  /\ [](\A i \in DOMAIN emailQueue : emailQueue[i].status = "CANCELED" => outbox[i].calls = 0)
  /\ [][\A i \in DOMAIN emailQueue :
          emailQueue[i].status = "CANCELED" => outbox'[i].calls = outbox[i].calls]_vars

\* C28: a WarningLog row has emailOpened = TRUE only if its status is SENT
\* and it is the row of the entry that was opened: an open event for a
\* recipient's SENT entry never marks an older FAILED row of the same
\* recipient and template.
C28_OnlySentLogsAreMarkedOpened ==
  \A i \in DOMAIN warningLog :
     warningLog[i].emailOpened =>
        /\ warningLog[i].status = "SENT"
        /\ emailQueue[i].openedAt # <<>>

\* C29: in every reachable state an entry with a provider message id has
\* status SENT, and an entry with openedAt set has status SENT and a
\* message id.
C29_MessageIdAndOpenedAtImplySent ==
  \A i \in DOMAIN emailQueue :
     /\ emailQueue[i].resendMessageId # <<>> => emailQueue[i].status = "SENT"
     /\ emailQueue[i].openedAt # <<>> =>
           emailQueue[i].status = "SENT" /\ emailQueue[i].resendMessageId # <<>>

\* C30: an invocation of checkMemberActivity that returns success=false has
\* inserted no QueueEntry and no WarningLog row, also when the existence
\* check of a later member fails after earlier members were queued.
C30_FailedScanInsertedNothing ==
  [][\A s \in Scanners :
       (ret'.by = s /\ ~ret'.value.success /\ scan[s].pc # "idle") =>
          scan[s].successfullyQueuedCount = 0]_vars

====
